---- MODULE Spec2Model ----
(***************************************************************************)
(* Model of the DEX quote aggregator backend: the venue adapters, the      *)
(* AggregatorService fan-out / fan-in, and the POST /api/aggregator/quote  *)
(* handler that builds a route artifact for every quote.                   *)
(*                                                                         *)
(* Amounts are integer token units (wei).  Percentages that the code keeps *)
(* as floats are kept as scaled integers: priceImpact in abstract units,   *)
(* savings.percentage in hundredths of a percent, slippage in thousandths  *)
(* of a percent.  Strings of the request body are sequences of one         *)
(* character strings, so that parsing is computed and not assumed.         *)
(***************************************************************************)
EXTENDS Integers, Sequences, FiniteSets, TLC

(***************************************************************************)
(* Bounds of the model.                                                    *)
(***************************************************************************)
MaxAmountOut == 2
MaxImpact == 1
MaxAmountIn == 1
MaxAllowance == 1
MaxTradeIn == 3
MaxReserve == 3

(***************************************************************************)
(* Configuration and addresses.                                            *)
(***************************************************************************)
NATIVE_TOKEN_ADDRESS == "0xEeeeeEeeeEeEeeEeEeEeeEEEeeeeEeeeeeeeEEeE"
NativeLower == "0xeeeeeeeeeeeeeeeeeeeeeeeeeeeeeeeeeeeeeeee"
WETH == "0x50498dC52bCd3dAeB54B7225A7d2FA8D536F313E"
WethLower == "0x50498dc52bcd3daeb54b7225a7d2fa8d536f313e"
DAI == "0xDc556F7209C48fC53a8cDf1339c033743A7e3e75"
DaiLower == "0xdc556f7209c48fc53a8cdf1339c033743a7e3e75"
UnknownToken == "0x1111111111111111111111111111111111111111"
ZeroAddress == "0x0000000000000000000000000000000000000000"
User == "0x2222222222222222222222222222222222222222"
\* a string that is not a 20-byte hex address
MalformedAddress == "0x12345"

\* process.env.ROUTER_ADDRESS and process.env.V3_SWAP_ROUTER_ADDRESS
ROUTER_ADDRESS == "0xV2Router"
V3_SWAP_ROUTER_ADDRESS == "0xV3Router"
Routers == {ROUTER_ADDRESS, V3_SWAP_ROUTER_ADDRESS}

\* String.prototype.toLowerCase on the addresses of the model
toLowerCase(a) ==
  CASE a = NATIVE_TOKEN_ADDRESS -> NativeLower
    [] a = WETH -> WethLower
    [] a = DAI -> DaiLower
    [] OTHER -> a

\* MAINNET_TOKENS, restricted to the tokens the model uses
MAINNET_TOKENS ==
  << [address |-> NATIVE_TOKEN_ADDRESS, symbol |-> "DOT", decimals |-> 18],
     [address |-> WETH, symbol |-> "WETH", decimals |-> 18],
     [address |-> DAI, symbol |-> "DAI", decimals |-> 18] >>

\* TokenRegistry.getByAddress: the tokens whose lowercased address matches
getByAddress(address) ==
  SelectSeq(MAINNET_TOKENS,
            LAMBDA t : toLowerCase(t.address) = toLowerCase(address))

isNativeToken(tokenAddress) ==
  toLowerCase(tokenAddress) = toLowerCase(NATIVE_TOKEN_ADDRESS)

\* viem isAddress (strict): 20-byte hex, all lowercase or with a valid
\* checksum
isAddress(a) ==
  a \in {NATIVE_TOKEN_ADDRESS, NativeLower, WETH, WethLower, DAI, DaiLower,
         UnknownToken, ZeroAddress, User}

\* viem getAddress: the checksum form of an address
getAddress(a) ==
  CASE toLowerCase(a) = NativeLower -> NATIVE_TOKEN_ADDRESS
    [] toLowerCase(a) = WethLower -> WETH
    [] toLowerCase(a) = DaiLower -> DAI
    [] OTHER -> a

\* validateAddress of an address that passed isAddress
validateAddress(address) == getAddress(address)

\* the contract reads getTokenInfo issues: none when validateAddress throws
TokenInfoReads(tokenAddress) ==
  IF isAddress(tokenAddress)
  THEN {[address |-> validateAddress(tokenAddress), functionName |-> f] :
          f \in {"name", "symbol", "decimals"}}
  ELSE {}

DEXES ==
  << [name |-> "Hammy Swap", version |-> "v2"],
     [name |-> "Surge Dex", version |-> "v3"] >>

getV2Dexes == SelectSeq(DEXES, LAMBDA d : d.version = "v2")
getV3Dexes == SelectSeq(DEXES, LAMBDA d : d.version = "v3")

\* AggregatorService constructor: the adapters Map in insertion order
adapters == getV2Dexes \o getV3Dexes

\* a value of process.env: not set, set to the empty string, or an address
EnvValues == {"undefined", "", "0xConfigured"}

\* the deployment with every DEX address set
ConfiguredEnv ==
  [FACTORY_ADDRESS |-> "0xConfigured", ROUTER_ADDRESS |-> "0xConfigured",
   V3_FACTORY_ADDRESS |-> "0xConfigured", V3_QUOTER_ADDRESS |-> "0xConfigured"]

\* process.env.X || ''
OrEmpty(value) == IF value \in {"undefined", ""} THEN "" ELSE value

\* the DexConfig objects of dexes.ts with their addresses
UNISWAP_V2_FORK1(e) ==
  [name |-> DEXES[1].name, version |-> DEXES[1].version,
   factoryAddress |-> OrEmpty(e.FACTORY_ADDRESS),
   routerAddress |-> OrEmpty(e.ROUTER_ADDRESS), quoterAddress |-> ""]
UNISWAP_V3_FORK1(e) ==
  [name |-> DEXES[2].name, version |-> DEXES[2].version,
   factoryAddress |-> OrEmpty(e.V3_FACTORY_ADDRESS), routerAddress |-> "",
   quoterAddress |-> OrEmpty(e.V3_QUOTER_ADDRESS)]
DexConfigs(e) == << UNISWAP_V2_FORK1(e), UNISWAP_V3_FORK1(e) >>

\* AggregatorService constructor on the configs of a deployment: one adapter
\* per config, the V2 configs first
Construct(e) ==
  SelectSeq(DexConfigs(e), LAMBDA c : c.version = "v2")
    \o SelectSeq(DexConfigs(e), LAMBDA c : c.version = "v3")

DEFAULT_FEE_TIERS == <<100, 500, 3000, 10000>>

\* gas estimate V3Service.quoteExactInputSingle attaches to every quote
GasEstimate == 150000

(***************************************************************************)
(* State.                                                                  *)
(***************************************************************************)
VARIABLES
  entry,            \* "http": POST /quote; "agg": getAggregatedQuote called
                    \* directly; "adapter": the adapters' getAllQuotes called
                    \* directly
  req,              \* the request body (http) or the call arguments (agg)
  allowance,        \* chain state: ERC-20 allowance(userAddress, router) of tokenIn
  pc,               \* position of the request
  amountInParsed,   \* amountIn in integer units
  tierResults,      \* V3DexAdapter.getAllQuotes: result of each fee tier's promise
  tierDone,         \* fee tier promises that have settled
  results,          \* AggregatorService.getAllQuotes: result of each adapter's promise
  adapterDone,      \* adapter promises that have settled
  aggregated,       \* outcome of getAggregatedQuote
  formattedQuotes,  \* the handler's formattedQuotes, after Promise.all
  allowanceReads,   \* per formatted quote: outcome of its allowance read
  bestAllowanceRead,\* outcome of the allowance read for the best route
  res,              \* the HTTP response
  pairReads,        \* per adapter: outcome of the chain reads of its V2 quote
  tierReads,        \* per fee tier: outcome of the chain reads of its V3 quote
  raised,           \* adapters whose getAllQuotes promise rejected
  erc20Reads,       \* ERC-20 contract reads issued: address and function
  calc,             \* a call of the V2 math utilities: inputs and results
  env,              \* process.env: the DEX addresses of the deployment
  service,          \* the AggregatorService of the server and its adapters
  tokensApi,        \* web client: the TokensApi singleton and its caller
  apiClient,        \* web client: a call of ApiClient.request
  swapExec,         \* web client: the useSwapExecution hook and the wallet
  viewModel         \* web client: the quote state of useSwapViewModel

vars == << entry, req, allowance, pc, amountInParsed, tierResults, tierDone,
           results, adapterDone, aggregated, formattedQuotes,
           allowanceReads,
           bestAllowanceRead, res, pairReads, tierReads, raised,
           erc20Reads, calc, env, service,
           tokensApi, apiClient, swapExec, viewModel >>

\* the state of the web client
ClientVars == << tokensApi, apiClient, swapExec, viewModel >>

(***************************************************************************)
(* Venue adapters.                                                         *)
(***************************************************************************)
\* amountOut a router or quoter call can return, and the price impact the
\* adapter computes from the pool state
QuoteAmounts == 0..MaxAmountOut
QuoteImpacts == 0..MaxImpact

\* the price impacts are enumerated for direct calls of getAggregatedQuote;
\* under the HTTP handler every pool reports the same impact
PoolImpacts(caller) == IF caller = "agg" THEN QuoteImpacts ELSE {0}

\* outcome of the chain reads behind one quote: a failure (pair or pool not
\* found, revert, zero reserve, transport error) or the values read
ReadFailures == {"not_found", "revert", "zero_reserve", "transport"}

\* the failures are enumerated for direct calls of the adapters; under the
\* aggregator every failed read is a revert
PoolFailures(caller) == IF caller = "adapter" THEN ReadFailures ELSE {"revert"}

QuoteOutcomes(caller) ==
  [ok : {FALSE}, error : PoolFailures(caller), amountOut : {0},
   priceImpact : {0}]
    \cup [ok : {TRUE}, error : {"none"}, amountOut : QuoteAmounts,
          priceImpact : PoolImpacts(caller)]

\* V2DexAdapter.getQuote: the DexQuote it returns when no read throws
V2GetQuote(config, outcome) ==
  [dex |-> "V2", dexName |-> config.name, amountOut |-> outcome.amountOut,
   priceImpact |-> outcome.priceImpact, poolAddress |-> "0xPair"]

\* V2DexAdapter.getAllQuotes: one quote, or [] when getQuote throws
V2GetAllQuotes(config, outcome) ==
  IF outcome.ok THEN << V2GetQuote(config, outcome) >> ELSE << >>

\* a catch that lets transport errors through
CaughtErrors_NotTransport == ReadFailures \ {"transport"}

\* the errors the catch clauses of the adapters handle: catch (error) has no
\* filter
CaughtErrors == ReadFailures

\* whether the promise of V2DexAdapter.getAllQuotes rejects
V2GetAllQuotesRaises(outcome) ==
  ~outcome.ok /\ outcome.error \notin CaughtErrors

\* V3Service.getPool: the pool of the pair for one fee tier
V3PoolAddress(feeTier) ==
  CASE feeTier = 100 -> "0xPool100"
    [] feeTier = 500 -> "0xPool500"
    [] feeTier = 3000 -> "0xPool3000"
    [] OTHER -> "0xPool10000"

\* V3DexAdapter.getQuote: the DexQuote it returns when no read throws
V3GetQuote(config, feeTier, outcome) ==
  [dex |-> "V3", dexName |-> config.name, amountOut |-> outcome.amountOut,
   priceImpact |-> outcome.priceImpact, gasEstimate |-> GasEstimate,
   feeTier |-> feeTier, poolAddress |-> V3PoolAddress(feeTier)]

\* the promise of one fee tier in V3DexAdapter.getAllQuotes: the quote, or
\* null (the empty sequence) when getQuote throws
V3TierPromise(config, feeTier, outcome) ==
  IF outcome.ok THEN << V3GetQuote(config, feeTier, outcome) >> ELSE << >>

RECURSIVE Flat(_)
\* Array.prototype.flat on an array of arrays
Flat(arrays) ==
  IF arrays = << >> THEN << >> ELSE Head(arrays) \o Flat(Tail(arrays))

\* V3DexAdapter.getAllQuotes after Promise.all: the non-null results, in
\* fee tier order
V3ValidQuotes(settled) == Flat(settled)

\* whether Promise.all of the fee tier promises rejects: some tier's error
\* escaped the catch of its callback
V3GetAllQuotesRaises(reads) ==
  \E i \in DOMAIN reads : reads[i] \notin CaughtErrors \cup {"none"}

(***************************************************************************)
(* AggregatorService.                                                      *)
(***************************************************************************)
\* a best-quote callback that keeps the smaller amountOut
PickBest_Inverted(best, current) ==
  IF current.amountOut < best.amountOut THEN current ELSE best

\* the callback of the best-quote reduce of getAggregatedQuote
PickBest(best, current) ==
  IF current.amountOut > best.amountOut THEN current ELSE best

\* a worst-quote callback that keeps the larger amountOut
PickWorst_Inverted(worst, current) ==
  IF current.amountOut > worst.amountOut THEN current ELSE worst

\* the callback of the worst-quote reduce of getAggregatedQuote
PickWorst(worst, current) ==
  IF current.amountOut < worst.amountOut THEN current ELSE worst

RECURSIVE ReduceBest(_, _)
\* allQuotes.reduce with the best-quote callback, from accumulator acc on
ReduceBest(acc, arr) ==
  IF arr = << >> THEN acc ELSE ReduceBest(PickBest(acc, Head(arr)), Tail(arr))

RECURSIVE ReduceWorst(_, _)
\* allQuotes.reduce with the worst-quote callback, from accumulator acc on
ReduceWorst(acc, arr) ==
  IF arr = << >> THEN acc ELSE ReduceWorst(PickWorst(acc, Head(arr)), Tail(arr))

\* reduce without an initial value starts from the first element
FindBestQuote(allQuotes) == ReduceBest(Head(allQuotes), Tail(allQuotes))
FindWorstQuote(allQuotes) == ReduceWorst(Head(allQuotes), Tail(allQuotes))

NoLiquidityMessage == "No liquidity found for this token pair on any DEX"
InvalidAddressMessage == "Invalid address"
DivisionByZeroMessage == "Division by zero"
TokenInfoMessage == "token info read failed"

NotAggregated == [status |-> "none"]
AggregateError(message) == [status |-> "error", message |-> message]

\* getAggregatedQuote on a quote list that is not empty: best and worst
\* quote, savings and recommendation; the BigInt division throws a
\* RangeError when the worst amountOut is 0
AggregateNonEmpty(allQuotes, amountIn) ==
  LET bestQuote == FindBestQuote(allQuotes)
      worstQuote == FindWorstQuote(allQuotes)
      savingsAbsolute == bestQuote.amountOut - worstQuote.amountOut
  IN IF worstQuote.amountOut = 0
     THEN AggregateError(DivisionByZeroMessage)
     ELSE
       LET savingsPercentage ==
             (savingsAbsolute * 10000) \div worstQuote.amountOut
       IN [status |-> "ok",
           bestQuote |-> bestQuote,
           allQuotes |-> allQuotes,
           amountIn |-> amountIn,
           savings |-> [percentage |-> savingsPercentage,
                        absoluteAmount |-> savingsAbsolute],
           recommendation |->
             [dexName |-> bestQuote.dexName, dex |-> bestQuote.dex,
              better |-> savingsPercentage > 0]]

\* getAggregatedQuote without its length check: reduce throws on the empty
\* list
Aggregate_NoEmptyCheck(allQuotes, amountIn) ==
  IF Len(allQuotes) = 0
  THEN AggregateError("Reduce of empty array with no initial value")
  ELSE AggregateNonEmpty(allQuotes, amountIn)

\* getAggregatedQuote from the merged quote list on: the AggregatedQuote, or
\* the error it throws
Aggregate(allQuotes, amountIn) ==
  IF Len(allQuotes) = 0 THEN AggregateError(NoLiquidityMessage)
  ELSE AggregateNonEmpty(allQuotes, amountIn)

(***************************************************************************)
(* V2 math utilities.  Prices and price impacts, floats in the code, are   *)
(* exact fractions [num, den] with den > 0.                                *)
(***************************************************************************)
\* getAmountOut charging no fee
getAmountOut_NoFee(amountIn, reserveIn, reserveOut) ==
  IF amountIn <= 0
  THEN [error |-> "Insufficient input amount", amountOut |-> 0]
  ELSE IF reserveIn <= 0 \/ reserveOut <= 0
  THEN [error |-> "Insufficient liquidity", amountOut |-> 0]
  ELSE LET amountInWithFee == amountIn * 1000
           numerator == amountInWithFee * reserveOut
           denominator == (reserveIn * 1000) + amountInWithFee
       IN [error |-> "none", amountOut |-> numerator \div denominator]

\* getAmountOut: the amount it returns, or the error it throws
getAmountOut(amountIn, reserveIn, reserveOut) ==
  IF amountIn <= 0
  THEN [error |-> "Insufficient input amount", amountOut |-> 0]
  ELSE IF reserveIn <= 0 \/ reserveOut <= 0
  THEN [error |-> "Insufficient liquidity", amountOut |-> 0]
  ELSE LET amountInWithFee == amountIn * 997
           numerator == amountInWithFee * reserveOut
           denominator == (reserveIn * 1000) + amountInWithFee
       IN [error |-> "none", amountOut |-> numerator \div denominator]

\* Math.abs
Abs(x) == IF x < 0 THEN 0 - x ELSE x

\* calculateV2PriceImpact for tokens of equal decimals:
\* |(executionPrice - midPrice) / midPrice * 100| with
\* midPrice = reserveOut / reserveIn and executionPrice = amountOut / amountIn
calculateV2PriceImpact(reserveIn, reserveOut, amountIn, amountOut) ==
  [num |-> 100 * Abs(amountOut * reserveIn - amountIn * reserveOut),
   den |-> amountIn * reserveOut]

\* the state of a call of the utilities before anything was computed
NoCalc == [phase |-> "none"]

(***************************************************************************)
(* Request parsing.                                                        *)
(***************************************************************************)
Digits == {"0", "1", "2", "3", "4", "5", "6", "7", "8", "9"}

DigitValue(c) ==
  CASE c = "0" -> 0 [] c = "1" -> 1 [] c = "2" -> 2 [] c = "3" -> 3
    [] c = "4" -> 4 [] c = "5" -> 5 [] c = "6" -> 6 [] c = "7" -> 7
    [] c = "8" -> 8 [] OTHER -> 9

\* index of the first "." of a string, 0 when it has none
DotIndex(s) ==
  IF \E i \in 1..Len(s) : s[i] = "."
  THEN CHOOSE i \in 1..Len(s) : s[i] = "." /\ \A j \in 1..(i - 1) : s[j] # "."
  ELSE 0

\* the test /^(-?)([0-9]*)\.?([0-9]*)$/ of parseUnits
IsDecimalNumber(s) ==
  LET body == IF s # << >> /\ Head(s) = "-" THEN Tail(s) ELSE s
  IN /\ \A i \in 1..Len(body) : body[i] \in Digits \cup {"."}
     /\ Cardinality({i \in 1..Len(body) : body[i] = "."}) <= 1

RECURSIVE DigitsToInt(_, _)
\* BigInt of a digit string, most significant digit first
DigitsToInt(acc, ds) ==
  IF ds = << >> THEN acc
  ELSE DigitsToInt(acc * 10 + DigitValue(Head(ds)), Tail(ds))

RECURSIVE TrimTrailingZeros(_)
TrimTrailingZeros(ds) ==
  IF ds # << >> /\ ds[Len(ds)] = "0"
  THEN TrimTrailingZeros(SubSeq(ds, 1, Len(ds) - 1))
  ELSE ds

\* parseUnits(value, decimals) for a value that passed IsDecimalNumber: the
\* fraction is padded with zeros to `decimals` digits, or cut to `decimals`
\* digits and rounded half up on the first digit cut
parseUnits(value, decimals) ==
  LET negative == value # << >> /\ Head(value) = "-"
      body == IF negative THEN Tail(value) ELSE value
      dot == DotIndex(body)
      integer == IF dot = 0 THEN body ELSE SubSeq(body, 1, dot - 1)
      fraction == TrimTrailingZeros(
                    IF dot = 0 THEN << "0" >>
                    ELSE SubSeq(body, dot + 1, Len(body)))
      kept == [i \in 1..decimals |->
                 IF i <= Len(fraction) THEN fraction[i] ELSE "0"]
      roundUp == IF Len(fraction) > decimals
                    /\ DigitValue(fraction[decimals + 1]) >= 5
                 THEN 1 ELSE 0
      magnitude == DigitsToInt(0, integer \o kept) + roundUp
  IN IF negative THEN 0 - magnitude ELSE magnitude

\* the decimal string of n smallest units of an 18 decimals token, n < 10
WeiString(n) ==
  << "0", "." >> \o [i \in 1..17 |-> "0"] \o << ToString(n) >>

\* Math.floor(slippage * 100) with slippage held in thousandths of a percent
SlippageBps(slippage) == slippage \div 10

\* the bound of calculateMaximumAmountIn applied to the output
MinimumAmountOut_Added(amountOut, slippageBps) ==
  (amountOut * (10000 + slippageBps)) \div 10000

\* (amountOut * (10000n - slippageBps)) / 10000n
MinimumAmountOut(amountOut, slippageBps) ==
  (amountOut * (10000 - slippageBps)) \div 10000

(***************************************************************************)
(* POST /api/aggregator/quote: route artifacts.                            *)
(***************************************************************************)
\* BigInt(Math.floor(Date.now() / 1000) + 1800), kept symbolic
Deadline == "now+1800"

\* router a quote is sent to
quoteRouterAddress(q) ==
  IF q.dex = "V3" THEN V3_SWAP_ROUTER_ADDRESS ELSE ROUTER_ADDRESS

\* ABI encoding of an address argument: its 20 bytes as lowercase hex
EncodeAddress(a) == toLowerCase(a)

\* encodeFunctionData for the swap of one quote, kept as the function name
\* and its encoded arguments
SwapCalldata(q, tokenIn, tokenOut, amountIn, minAmountOut) ==
  IF q.dex = "V3"
  THEN [functionName |-> "exactInputSingle",
        tokenIn |-> EncodeAddress(tokenIn),
        tokenOut |-> EncodeAddress(tokenOut), fee |-> q.feeTier,
        recipient |-> ZeroAddress, deadline |-> Deadline,
        amountIn |-> amountIn, amountOutMinimum |-> minAmountOut,
        sqrtPriceLimitX96 |-> 0]
  ELSE IF isNativeToken(tokenIn)
  THEN [functionName |-> "swapExactETHForTokens",
        amountOutMinimum |-> minAmountOut, path |-> << EncodeAddress(tokenIn), EncodeAddress(tokenOut) >>,
        recipient |-> ZeroAddress, deadline |-> Deadline]
  ELSE IF isNativeToken(tokenOut)
  THEN [functionName |-> "swapExactTokensForETH", amountIn |-> amountIn,
        amountOutMinimum |-> minAmountOut, path |-> << EncodeAddress(tokenIn), EncodeAddress(tokenOut) >>,
        recipient |-> ZeroAddress, deadline |-> Deadline]
  ELSE [functionName |-> "swapExactTokensForTokens", amountIn |-> amountIn,
        amountOutMinimum |-> minAmountOut, path |-> << EncodeAddress(tokenIn), EncodeAddress(tokenOut) >>,
        recipient |-> ZeroAddress, deadline |-> Deadline]

\* a native test that compares the address as it was sent
ValueToSend_CaseSensitive(tokenIn, amountIn) ==
  IF tokenIn = toLowerCase(NATIVE_TOKEN_ADDRESS) THEN ToString(amountIn)
  ELSE "0"

\* valueToSend / quoteValueToSend
ValueToSend(tokenIn, amountIn) ==
  IF isNativeToken(tokenIn) THEN ToString(amountIn) ELSE "0"

\* whether checkApprovalNeeded issues the allowance read at all
ReadsAllowance(tokenIn, userAddress) ==
  ~isNativeToken(tokenIn) /\ userAddress # ""

\* an allowance test that also asks for approval on an exact allowance
checkApprovalNeeded_Lte(spenderAddress, tokenIn, userAddress, amountIn, allow, read) ==
  IF isNativeToken(tokenIn) THEN FALSE
  ELSE IF userAddress = "" THEN TRUE
  ELSE IF read = "failed" THEN TRUE
  ELSE allow[spenderAddress] <= amountIn

\* an approval check per request: the allowance of any router suffices
checkApprovalNeeded_PerRequest(spenderAddress, tokenIn, userAddress, amountIn, allow, read) ==
  IF isNativeToken(tokenIn) THEN FALSE
  ELSE IF userAddress = "" THEN TRUE
  ELSE IF read = "failed" THEN TRUE
  ELSE \A router \in DOMAIN allow : allow[router] < amountIn

\* checkApprovalNeeded(spenderAddress); read is the outcome of the
\* allowance read: "none" (not issued), "ok" or "failed"
checkApprovalNeeded(spenderAddress, tokenIn, userAddress, amountIn, allow, read) ==
  IF isNativeToken(tokenIn) THEN FALSE
  ELSE IF userAddress = "" THEN TRUE
  ELSE IF read = "failed" THEN TRUE
  ELSE allow[spenderAddress] < amountIn

\* the approval descriptor of a route
ApprovalDescriptor(needed, tokenIn, spender, amountIn, userAddress) ==
  IF needed
  THEN [needed |-> TRUE, message |-> "Approval required",
        token |-> tokenIn, spender |-> spender, amount |-> ToString(amountIn)]
  ELSE [needed |-> FALSE,
        message |-> IF userAddress # "" THEN "already approved"
                    ELSE "No approval needed for native token"]

\* one element of the response: the quote with its route artifact
FormatRoute(q, router, calldata, value, approval) ==
  LET transaction == [to |-> router, data |-> calldata, value |-> value,
                      from |-> ZeroAddress]
  IN IF q.dex = "V3"
     THEN [dex |-> q.dex, dexName |-> q.dexName, feeTier |-> q.feeTier,
           amountOutWei |-> ToString(q.amountOut),
           priceImpact |-> q.priceImpact,
           gasEstimate |-> ToString(q.gasEstimate),
           poolAddress |-> q.poolAddress,
           transaction |-> transaction, approval |-> approval]
     ELSE [dex |-> q.dex, dexName |-> q.dexName,
           amountOutWei |-> ToString(q.amountOut),
           priceImpact |-> q.priceImpact,
           poolAddress |-> q.poolAddress,
           transaction |-> transaction, approval |-> approval]

\* a callback that returns the quote summary without its route artifact
FormatQuote_SummaryOnly(q, r, allow, read) ==
  [dex |-> q.dex, dexName |-> q.dexName,
   feeTier |-> IF q.dex = "V3" THEN q.feeTier ELSE 0,
   amountOutWei |-> ToString(q.amountOut),
   priceImpact |-> q.priceImpact, poolAddress |-> q.poolAddress]

\* the callback of quote.allQuotes.map in the handler
FormatQuote(q, r, allow, read) ==
  LET slippageBps == SlippageBps(r.slippage)
      router == quoteRouterAddress(q)
      quoteMinAmountOut == MinimumAmountOut(q.amountOut, slippageBps)
      needsApprovalForRoute ==
        checkApprovalNeeded(router, r.tokenIn, r.userAddress, r.parsed,
                            allow, read)
  IN FormatRoute(q, router,
                 SwapCalldata(q, r.tokenIn, r.tokenOut, r.parsed,
                              quoteMinAmountOut),
                 ValueToSend(r.tokenIn, r.parsed),
                 ApprovalDescriptor(needsApprovalForRoute, r.tokenIn, router,
                                    r.parsed, r.userAddress))

\* the success body of the handler
QuoteResponse(quote, r, allow, formatted, bestRead) ==
  LET slippageBps == SlippageBps(r.slippage)
      minimumAmountOut == MinimumAmountOut(quote.bestQuote.amountOut, slippageBps)
      routerAddress == quoteRouterAddress(quote.bestQuote)
      bestRouteNeedsApproval ==
        checkApprovalNeeded(routerAddress, r.tokenIn, r.userAddress, r.parsed,
                            allow, bestRead)
  IN [success |-> TRUE,
      tokenIn |-> [address |-> validateAddress(r.tokenIn),
                   amountWei |-> ToString(r.parsed)],
      tokenOut |-> [address |-> validateAddress(r.tokenOut),
                    amountWei |-> ToString(quote.bestQuote.amountOut)],
      bestRoute |->
        FormatRoute(quote.bestQuote, routerAddress,
                    SwapCalldata(quote.bestQuote, r.tokenIn, r.tokenOut,
                                 r.parsed, minimumAmountOut),
                    ValueToSend(r.tokenIn, r.parsed),
                    ApprovalDescriptor(bestRouteNeedsApproval, r.tokenIn,
                                       routerAddress, r.parsed, r.userAddress)),
      allQuotes |-> formatted,
      savings |-> [percentage |-> quote.savings.percentage,
                   amountWei |-> ToString(quote.savings.absoluteAmount)],
      slippage |-> r.slippage,
      minimumAmountOutWei |-> ToString(minimumAmountOut),
      recommendation |-> quote.recommendation]

ErrorResponse(message) == [success |-> FALSE, error |-> message]

(***************************************************************************)
(* Inputs.                                                                 *)
(***************************************************************************)
DefaultSlippage == 500

\* request bodies: a field may be missing (the empty string), the amount
\* may be malformed, the slippage may be out of range
RequestTokensIn == {NATIVE_TOKEN_ADDRESS, WETH, UnknownToken}
RequestTokensOut == {NativeLower, DAI}
RequestAmounts == {WeiString(n) : n \in 0..MaxAmountIn}
RequestSlippages == {0, DefaultSlippage, 100000}
RequestUsers == {"", User}

\* requests the handler rejects before it quotes
InvalidRequests ==
  [tokenIn : {"", WETH, UnknownToken, MalformedAddress},
   tokenOut : {DAI, MalformedAddress},
   amountIn : {<< >>, << "a", "b", "c" >>, WeiString(MaxAmountIn)},
   slippage : {0 - 1, DefaultSlippage, 100001}, userAddress : {""}]

\* every token pair with and without a user, for one amount and the
\* default slippage
RouteRequests ==
  [tokenIn : RequestTokensIn, tokenOut : RequestTokensOut,
   amountIn : {WeiString(MaxAmountIn)}, slippage : {DefaultSlippage},
   userAddress : RequestUsers]

\* every amount and slippage, for one token pair
SlippageRequests ==
  [tokenIn : {WETH}, tokenOut : {DAI}, amountIn : RequestAmounts,
   slippage : RequestSlippages, userAddress : {""}]

Requests == InvalidRequests \cup RouteRequests \cup SlippageRequests

\* allowances exist only for a user and an ERC-20 input token
Allowances(r) ==
  IF r.userAddress # "" /\ r.tokenIn # "" /\ ~isNativeToken(r.tokenIn)
  THEN [Routers -> 0..MaxAllowance]
  ELSE {[x \in Routers |-> 0]}

\* ERC-20 metadata the chain returns for the token outside the registry
ChainToken == [address |-> UnknownToken, symbol |-> "UNK", decimals |-> 18]

NoResponse == [status |-> 0]

\* no apiClient.get has settled
NoFetch ==
  [kind |-> "none", success |-> FALSE, tokens |-> "undefined",
   error |-> "none"]

Returned(value) == [status |-> "returned", value |-> value]
Raised(error) == [status |-> "raised", value |-> error]

\* the TokensApi singleton after construction (the cache lifetime and the
\* clock of the browser count minutes), with no call made yet
TokensApiConstructed ==
  [cache |-> "null", cacheTimestamp |-> 0, CACHE_DURATION |-> 5,
   clock |-> 1,
   call |-> [phase |-> "idle", method |-> "none", useCache |-> FALSE,
             now |-> 0, cacheBefore |-> "null", fetch |-> NoFetch,
             result |-> Raised("pending")]]

\* no ApiClient.request call has been made
NoApiRequest ==
  [phase |-> "idle", retries |-> 0, attempt |-> 0, log |-> << >>,
   lastError |-> "undefined", result |-> Raised("pending")]

\* no transaction object (null, or a route without transaction data)
NoTransaction == [to |-> "", data |-> "", value |-> "", from |-> ""]

\* a wagmi mutation (useWriteContract, useSendTransaction) that has not been
\* called, or was reset; call 0 is no call
IdleMutation == [status |-> "idle", call |-> 0]

\* useSwapExecution after its first render: its three React states, the two
\* wagmi mutations with their receipts, and what the wallet was asked for
SwapExecutionMounted ==
  [error |-> "null", needsApproval |-> FALSE,
   pendingSwapTx |-> [call |-> 0, tx |-> NoTransaction],
   approve |-> IdleMutation, send |-> IdleMutation,
   calls |-> 0, approvals |-> << >>, sent |-> << >>, approved |-> {}]

\* no quote is held (quoteData is null)
NoQuoteData ==
  [tokenOut |-> [amount |-> ""], bestRoute |-> [dex |-> ""],
   allQuotes |-> << >>]

\* the inputs of the quote effect after the first render: no token selected,
\* no amount typed, no token list loaded
NoInputs ==
  [fromToken |-> "", toToken |-> "", fromAmount |-> "",
   availableTokens |-> "empty"]

\* the timer setTimeout(..., 500) of the quote effect of generation gen,
\* whose callback closes over the inputs of that run
DebounceTimer(gen, inputs) ==
  [kind |-> "debounce", gen |-> gen, inputs |-> inputs]

\* useSwapViewModel after its first render and the first run of its quote
\* effect: the React states, and of the effect runs the generation of the
\* latest one, the runs whose isActive is true, the live timers and the
\* getQuote requests in flight
ViewModelMounted ==
  [inputs |-> NoInputs,
   toAmount |-> "", routes |-> << >>, selectedRouteId |-> "null",
   quoteData |-> NoQuoteData, quoteLoading |-> FALSE,
   quoteError |-> "null", isRefreshing |-> FALSE,
   gen |-> 1, active |-> {1}, timers |-> {DebounceTimer(1, NoInputs)},
   requests |-> << >>]

\* the web client before any of its operations has run
ClientConstructed ==
  /\ tokensApi = TokensApiConstructed
  /\ apiClient = NoApiRequest
  /\ swapExec = SwapExecutionMounted
  /\ viewModel = ViewModelMounted

\* the request with its parsed amount, as the closures of the handler see it
Ctx ==
  [tokenIn |-> req.tokenIn, tokenOut |-> req.tokenOut,
   slippage |-> req.slippage, userAddress |-> req.userAddress,
   parsed |-> amountInParsed]

IdleFanOut ==
  /\ tierResults = [i \in 1..Len(DEFAULT_FEE_TIERS) |-> << >>]
  /\ tierDone = {}
  /\ results = [a \in 1..Len(adapters) |-> << >>]
  /\ adapterDone = {}
  /\ aggregated = NotAggregated
  /\ formattedQuotes = << >>
  /\ allowanceReads = << >>
  /\ bestAllowanceRead = "none"
  /\ res = NoResponse
  /\ pairReads = [a \in 1..Len(adapters) |-> "pending"]
  /\ tierReads = [i \in 1..Len(DEFAULT_FEE_TIERS) |-> "pending"]
  /\ raised = {}
  /\ erc20Reads = {}
  /\ calc = NoCalc
  /\ env = ConfiguredEnv
  /\ service = [status |-> "running", adapters |-> Construct(env)]

\* a POST /api/aggregator/quote request arrives
Init ==
  /\ entry = "http"
  /\ req \in Requests
  /\ allowance \in Allowances(req)
  /\ pc = "start"
  /\ amountInParsed = 0
  /\ IdleFanOut
  /\ ClientConstructed

\* getAggregatedQuote is called directly (getBestQuote, examples)
InitAgg ==
  /\ entry = "agg"
  /\ req = [tokenIn |-> WETH, tokenOut |-> DAI, amountIn |-> << >>,
            slippage |-> DefaultSlippage, userAddress |-> ""]
  /\ allowance = [x \in Routers |-> 0]
  /\ pc = "getTokenInfo"
  /\ amountInParsed \in 1..MaxAmountIn
  /\ IdleFanOut
  /\ ClientConstructed

\* a request without a user address arrives for every token pair
InitLive ==
  /\ entry = "http"
  /\ req \in {r \in RouteRequests : r.userAddress = ""}
  /\ allowance \in Allowances(req)
  /\ pc = "start"
  /\ amountInParsed = 0
  /\ IdleFanOut
  /\ ClientConstructed

\* the adapters' getAllQuotes are called directly with a token pair and an
\* amount
InitAdapters ==
  /\ entry = "adapter"
  /\ req = [tokenIn |-> WETH, tokenOut |-> DAI, amountIn |-> << >>,
            slippage |-> DefaultSlippage, userAddress |-> ""]
  /\ allowance = [x \in Routers |-> 0]
  /\ pc = "fanout"
  /\ amountInParsed \in 1..MaxAmountIn
  /\ IdleFanOut
  /\ ClientConstructed

\* no request is being handled
NoRequest ==
  /\ req = [tokenIn |-> WETH, tokenOut |-> DAI, amountIn |-> << >>,
            slippage |-> DefaultSlippage, userAddress |-> ""]
  /\ allowance = [x \in Routers |-> 0]
  /\ amountInParsed = 0
  /\ tierResults = [i \in 1..Len(DEFAULT_FEE_TIERS) |-> << >>]
  /\ tierDone = {}
  /\ results = [a \in 1..Len(adapters) |-> << >>]
  /\ adapterDone = {}
  /\ aggregated = NotAggregated
  /\ formattedQuotes = << >>
  /\ allowanceReads = << >>
  /\ bestAllowanceRead = "none"
  /\ res = NoResponse
  /\ pairReads = [a \in 1..Len(adapters) |-> "pending"]
  /\ tierReads = [i \in 1..Len(DEFAULT_FEE_TIERS) |-> "pending"]
  /\ raised = {}
  /\ erc20Reads = {}

\* getAmountOut and calculateV2PriceImpact are called with an amount and the
\* reserves of a pair, zero included
InitMath ==
  /\ entry = "math"
  /\ pc = "math"
  /\ NoRequest
  /\ ClientConstructed
  /\ calc \in [phase : {"input"}, amountIn : 0..MaxTradeIn,
                reserveIn : 0..MaxReserve, reserveOut : 0..MaxReserve]
  /\ env = ConfiguredEnv
  /\ service = [status |-> "running", adapters |-> Construct(env)]

\* the server process is about to start in some deployment
InitStartup ==
  /\ entry = "startup"
  /\ pc = "startup"
  /\ NoRequest
  /\ ClientConstructed
  /\ calc = NoCalc
  /\ env \in [FACTORY_ADDRESS : EnvValues, ROUTER_ADDRESS : EnvValues,
               V3_FACTORY_ADDRESS : EnvValues, V3_QUOTER_ADDRESS : EnvValues]
  /\ service = [status |-> "stopped", adapters |-> << >>]

(***************************************************************************)
(* Actions.                                                                *)
(***************************************************************************)
FanOutVars == << tierResults, tierDone, results, adapterDone, pairReads,
                tierReads, raised >>
FormatVars == << formattedQuotes, allowanceReads, bestAllowanceRead >>

\* res.status(400).json({success: false, error})
Respond400(message) ==
  /\ res' = [status |-> 400, body |-> ErrorResponse(message)]
  /\ pc' = "done"

\* parseUnits and the call of getAggregatedQuote, up to its first await
ParseAndCall(decimals) ==
  IF IsDecimalNumber(req.amountIn)
  THEN /\ amountInParsed' = parseUnits(req.amountIn, decimals)
       /\ pc' = "getTokenInfo"
       /\ UNCHANGED res
  ELSE /\ Respond400("Invalid decimal number")
       /\ UNCHANGED amountInParsed

\* the handler from its entry to its first await
HandleQuote ==
  /\ pc = "start"
  /\ IF req.tokenIn = "" \/ req.tokenOut = "" \/ req.amountIn = << >>
     THEN /\ Respond400("tokenIn, tokenOut, and amountIn are required")
          /\ UNCHANGED amountInParsed
     ELSE IF req.slippage < 0 \/ req.slippage > 100000
     THEN /\ Respond400("slippage must be between 0 and 100")
          /\ UNCHANGED amountInParsed
     ELSE IF getByAddress(req.tokenIn) # << >>
     THEN ParseAndCall(Head(getByAddress(req.tokenIn)).decimals)
     ELSE /\ pc' = "decimals"
          /\ UNCHANGED << amountInParsed, res >>
  /\ UNCHANGED << tokensApi, apiClient, swapExec, viewModel,
                  entry, req, allowance, calc, env, service, aggregated, erc20Reads >>
  /\ UNCHANGED FanOutVars
  /\ UNCHANGED FormatVars

\* aggregatorService.getTokenInfo(tokenIn) for a token outside the registry
FetchDecimals ==
  /\ pc = "decimals"
  /\ erc20Reads' = erc20Reads \cup TokenInfoReads(req.tokenIn)
  /\ \E ok \in (IF isAddress(req.tokenIn) THEN BOOLEAN ELSE {FALSE}) :
       IF ok THEN ParseAndCall(ChainToken.decimals)
       ELSE /\ Respond400("Unable to fetch token decimals for tokenIn")
            /\ UNCHANGED amountInParsed
  /\ UNCHANGED << tokensApi, apiClient, swapExec, viewModel,
                  entry, req, allowance, calc, env, service, aggregated >>
  /\ UNCHANGED FanOutVars
  /\ UNCHANGED FormatVars

\* getAggregatedQuote throws: the direct caller sees the error, the handler
\* answers 400 with its message
Throw(message) ==
  /\ aggregated' = AggregateError(message)
  /\ pc' = "done"
  /\ res' = IF entry = "http"
            THEN [status |-> 400, body |-> ErrorResponse(message)]
            ELSE res

\* Promise.all of the two firstAdapter.getTokenInfo calls: both calls are
\* made, each issues its reads unless validateAddress throws
GetTokenInfo ==
  /\ pc = "getTokenInfo"
  /\ IF Len(adapters) = 0
     THEN /\ Throw("No DEX adapters configured")
          /\ UNCHANGED erc20Reads
     ELSE /\ erc20Reads' = erc20Reads \cup TokenInfoReads(req.tokenIn)
                              \cup TokenInfoReads(req.tokenOut)
          /\ IF isAddress(req.tokenIn) /\ isAddress(req.tokenOut)
             THEN \E ok \in BOOLEAN :
                    IF ok THEN /\ pc' = "fanout"
                               /\ UNCHANGED << aggregated, res >>
                    ELSE Throw(TokenInfoMessage)
             ELSE Throw(InvalidAddressMessage)
  /\ UNCHANGED << tokensApi, apiClient, swapExec, viewModel,
                  entry, req, allowance, calc, env, service, amountInParsed >>
  /\ UNCHANGED FanOutVars
  /\ UNCHANGED FormatVars

\* the promise of a V2 adapter settles: adapter.getAllQuotes inside the
\* try/catch of AggregatorService.getAllQuotes
V2AdapterSettles(a) ==
  /\ pc = "fanout"
  /\ adapters[a].version = "v2"
  /\ a \notin adapterDone
  /\ pairReads[a] = "pending"
  /\ \E outcome \in QuoteOutcomes(entry) :
       /\ pairReads' = [pairReads EXCEPT ![a] = outcome.error]
       /\ results' = [results EXCEPT
                       ![a] = V2GetAllQuotes(adapters[a], outcome)]
       /\ raised' = IF V2GetAllQuotesRaises(outcome) THEN raised \cup {a}
                    ELSE raised
  /\ adapterDone' = adapterDone \cup {a}
  /\ UNCHANGED << tokensApi, apiClient, swapExec, viewModel,
                  entry, req, allowance, calc, env, service, pc, amountInParsed, tierResults,
                  tierDone, tierReads, aggregated, res, erc20Reads >>
  /\ UNCHANGED FormatVars

\* the promise of one fee tier settles in V3DexAdapter.getAllQuotes
V3TierSettles(a, i) ==
  /\ pc = "fanout"
  /\ adapters[a].version = "v3"
  /\ a \notin adapterDone
  /\ i \notin tierDone
  /\ tierReads[i] = "pending"
  /\ \E outcome \in QuoteOutcomes(entry) :
       /\ tierReads' = [tierReads EXCEPT ![i] = outcome.error]
       /\ tierResults' = [tierResults EXCEPT
                            ![i] = V3TierPromise(adapters[a],
                                                 DEFAULT_FEE_TIERS[i], outcome)]
  /\ tierDone' = tierDone \cup {i}
  /\ UNCHANGED << tokensApi, apiClient, swapExec, viewModel,
                  entry, req, allowance, calc, env, service, pc, amountInParsed, results,
                  adapterDone, pairReads, raised, aggregated, res,
                  erc20Reads >>
  /\ UNCHANGED FormatVars

\* Promise.all of the fee tiers resolves: the promise of the V3 adapter
\* settles with the valid quotes
V3AdapterSettles(a) ==
  /\ pc = "fanout"
  /\ adapters[a].version = "v3"
  /\ a \notin adapterDone
  /\ tierDone = 1..Len(DEFAULT_FEE_TIERS)
  /\ results' = [results EXCEPT ![a] = V3ValidQuotes(tierResults)]
  /\ raised' = IF V3GetAllQuotesRaises(tierReads) THEN raised \cup {a}
               ELSE raised
  /\ adapterDone' = adapterDone \cup {a}
  /\ UNCHANGED << tokensApi, apiClient, swapExec, viewModel,
                  entry, req, allowance, calc, env, service, pc, amountInParsed, tierResults,
                  tierDone, pairReads, tierReads, aggregated, res,
                  erc20Reads >>
  /\ UNCHANGED FormatVars

\* Promise.all of the adapters resolves: getAllQuotes returns results.flat()
\* and getAggregatedQuote runs to its end
AggregateQuotes ==
  /\ pc = "fanout"
  /\ adapterDone = 1..Len(adapters)
  /\ LET outcome == Aggregate(Flat(results), amountInParsed)
     IN IF outcome.status = "error" THEN Throw(outcome.message)
        ELSE /\ aggregated' = outcome
             /\ pc' = IF entry = "http" THEN "format" ELSE "done"
             /\ UNCHANGED res
  /\ UNCHANGED << tokensApi, apiClient, swapExec, viewModel,
                  entry, req, allowance, calc, env, service, amountInParsed, erc20Reads >>
  /\ UNCHANGED FanOutVars
  /\ UNCHANGED FormatVars

\* the allowance read checkApprovalNeeded issues against tokenIn
AllowanceReads ==
  IF ReadsAllowance(req.tokenIn, req.userAddress)
  THEN {[address |-> req.tokenIn, functionName |-> "allowance"]}
  ELSE {}

\* outcomes of the allowance reads of n routes
AllowanceReadOutcomes(n) ==
  IF ReadsAllowance(req.tokenIn, req.userAddress)
  THEN [1..n -> {"ok", "failed"}]
  ELSE {[i \in 1..n |-> "none"]}

\* Promise.all(formattedQuotesPromises): every quote gets its calldata and
\* its own allowance read
FormatQuotes ==
  /\ pc = "format"
  /\ \E reads \in AllowanceReadOutcomes(Len(aggregated.allQuotes)) :
       /\ allowanceReads' = reads
       /\ formattedQuotes' =
            [i \in 1..Len(aggregated.allQuotes) |->
               FormatQuote(aggregated.allQuotes[i], Ctx, allowance, reads[i])]
  /\ erc20Reads' = erc20Reads \cup AllowanceReads
  /\ pc' = "bestApproval"
  /\ UNCHANGED << tokensApi, apiClient, swapExec, viewModel,
                  entry, req, allowance, calc, env, service, amountInParsed, aggregated,
                  bestAllowanceRead, res >>
  /\ UNCHANGED FanOutVars

\* checkApprovalNeeded(routerAddress) for the best route, then res.json
RespondQuote ==
  /\ pc = "bestApproval"
  /\ \E reads \in AllowanceReadOutcomes(1) :
       /\ bestAllowanceRead' = reads[1]
       /\ res' = [status |-> 200,
                  body |-> QuoteResponse(aggregated, Ctx, allowance,
                                         formattedQuotes, reads[1])]
  /\ erc20Reads' = erc20Reads \cup AllowanceReads
  /\ pc' = "done"
  /\ UNCHANGED << tokensApi, apiClient, swapExec, viewModel,
                  entry, req, allowance, calc, env, service, amountInParsed, aggregated,
                  formattedQuotes, allowanceReads >>
  /\ UNCHANGED FanOutVars

FanOut ==
  \E a \in 1..Len(adapters) :
    \/ V2AdapterSettles(a)
    \/ \E i \in 1..Len(DEFAULT_FEE_TIERS) : V3TierSettles(a, i)
    \/ V3AdapterSettles(a)

NextAgg ==
  \/ GetTokenInfo
  \/ FanOut
  \/ AggregateQuotes

Next ==
  \/ HandleQuote
  \/ FetchDecimals
  \/ GetTokenInfo
  \/ FanOut
  \/ AggregateQuotes
  \/ FormatQuotes
  \/ RespondQuote

\* the getAllQuotes of the adapters are called directly
NextAdapters == FanOut

\* the state of the request being handled
RequestVars ==
  << entry, req, allowance, pc, amountInParsed, tierResults, tierDone,
     results, adapterDone, aggregated, formattedQuotes, allowanceReads,
     bestAllowanceRead, res, pairReads, tierReads, raised, erc20Reads >>

\* getAmountOut(amountIn, reserveIn, reserveOut) returns or throws
CallGetAmountOut ==
  /\ calc.phase = "input"
  /\ calc' = [phase |-> "quoted", amountIn |-> calc.amountIn,
              reserveIn |-> calc.reserveIn, reserveOut |-> calc.reserveOut,
              quote |-> getAmountOut(calc.amountIn, calc.reserveIn,
                                     calc.reserveOut)]
  /\ UNCHANGED RequestVars
  /\ UNCHANGED ClientVars
  /\ UNCHANGED << env, service >>

\* calculateV2PriceImpact on the reserves and the amount getAmountOut
\* returned, as V2DexAdapter.getQuote calls it
CallPriceImpact ==
  /\ calc.phase = "quoted"
  /\ calc.quote.error = "none"
  /\ calc' = [phase |-> "impact", amountIn |-> calc.amountIn,
              reserveIn |-> calc.reserveIn, reserveOut |-> calc.reserveOut,
              quote |-> calc.quote,
              priceImpact |->
                calculateV2PriceImpact(calc.reserveIn, calc.reserveOut,
                                       calc.amountIn, calc.quote.amountOut)]
  /\ UNCHANGED RequestVars
  /\ UNCHANGED ClientVars
  /\ UNCHANGED << env, service >>

NextMath ==
  \/ CallGetAmountOut
  \/ CallPriceImpact

\* the module of the aggregator routes is loaded: new AggregatorService
Startup ==
  /\ service.status = "stopped"
  /\ service' = [status |-> "running", adapters |-> Construct(env)]
  /\ UNCHANGED RequestVars
  /\ UNCHANGED ClientVars
  /\ UNCHANGED << calc, env >>

NextStartup == Startup

\* a chain read of the fan-out never completes: the promise of its pair or
\* fee tier stays pending, no timer or cancellation is attached to it
ReadNeverCompletes ==
  /\ pc = "fanout"
  /\ \/ \E a \in 1..Len(adapters) :
          /\ adapters[a].version = "v2"
          /\ pairReads[a] = "pending"
          /\ pairReads' = [pairReads EXCEPT ![a] = "never"]
          /\ UNCHANGED tierReads
     \/ \E i \in 1..Len(DEFAULT_FEE_TIERS) :
          /\ tierReads[i] = "pending"
          /\ tierReads' = [tierReads EXCEPT ![i] = "never"]
          /\ UNCHANGED pairReads
  /\ UNCHANGED << tokensApi, apiClient, swapExec, viewModel,
                  entry, req, allowance, calc, env, service, pc, amountInParsed, tierResults,
                  tierDone, results, adapterDone, raised, aggregated, res,
                  erc20Reads >>
  /\ UNCHANGED FormatVars

\* the handler with chain reads that may never complete
NextLive ==
  \/ Next
  \/ ReadNeverCompletes

Spec == Init /\ [][Next]_vars
SpecAgg == InitAgg /\ [][NextAgg]_vars
SpecAdapters == InitAdapters /\ [][NextAdapters]_vars
SpecMath == InitMath /\ [][NextMath]_vars
SpecStartup == InitStartup /\ [][NextStartup]_vars

\* the event loop runs every continuation whose promise has settled; a read
\* that never completes enables nothing
SpecLive == InitLive /\ [][NextLive]_vars /\ WF_vars(Next)

(***************************************************************************)
(* Properties of getAggregatedQuote (checked under SpecAgg).               *)
(***************************************************************************)
Succeeded == aggregated.status = "ok"

AmountsOut(quotes) == {quotes[i].amountOut : i \in 1..Len(quotes)}
MaxOf(S) == CHOOSE m \in S : \A x \in S : x <= m
MinOf(S) == CHOOSE m \in S : \A x \in S : m <= x

\* C1: in every successful result of getAggregatedQuote, bestQuote is an
\* element of allQuotes and its amountOut is the maximum amountOut of
\* allQuotes.
C1_BestQuoteIsMaximum ==
  Succeeded =>
    /\ \E i \in 1..Len(aggregated.allQuotes) :
         aggregated.allQuotes[i] = aggregated.bestQuote
    /\ aggregated.bestQuote.amountOut = MaxOf(AmountsOut(aggregated.allQuotes))

\* a result with quotes of both adapters whose best quote is not the first
C1_Witness ==
  /\ Succeeded
  /\ Len(aggregated.allQuotes) >= 3
  /\ aggregated.allQuotes[1].dex = "V2"
  /\ aggregated.bestQuote.dex = "V3"
  /\ aggregated.bestQuote.amountOut > aggregated.allQuotes[1].amountOut

\* position of a venue name in lexicographic order
VenueNameRank(name) == IF name = "Hammy Swap" THEN 1 ELSE 2

\* the ranking order: q1 is ranked strictly before q2
RankedBefore(q1, q2) ==
  \/ q1.amountOut > q2.amountOut
  \/ /\ q1.amountOut = q2.amountOut
     /\ \/ q1.priceImpact < q2.priceImpact
        \/ /\ q1.priceImpact = q2.priceImpact
           /\ \/ /\ q1.dex = "V3" /\ q2.dex = "V3"
                 /\ q1.feeTier < q2.feeTier
              \/ /\ ~(q1.dex = "V3" /\ q2.dex = "V3" /\ q1.feeTier # q2.feeTier)
                 /\ VenueNameRank(q1.dexName) < VenueNameRank(q2.dexName)

\* C2: the allQuotes list of a successful result is sorted by the ranking
\* order (amountOut descending, then lower price impact, then lower fee
\* tier, then venue name) and bestQuote is its first element.
C2_SortedByRanking ==
  Succeeded =>
    /\ \A i, j \in 1..Len(aggregated.allQuotes) :
         i < j => ~RankedBefore(aggregated.allQuotes[j], aggregated.allQuotes[i])
    /\ aggregated.bestQuote = aggregated.allQuotes[1]

\* C3: in every successful result, savings.absoluteAmount is the best
\* amountOut minus the minimum amountOut, savings.percentage is not
\* negative, and both are zero when exactly one quote survives.
C3_Savings ==
  Succeeded =>
    /\ aggregated.savings.absoluteAmount =
         aggregated.bestQuote.amountOut - MinOf(AmountsOut(aggregated.allQuotes))
    /\ aggregated.savings.percentage >= 0
    /\ Len(aggregated.allQuotes) = 1 =>
         /\ aggregated.savings.absoluteAmount = 0
         /\ aggregated.savings.percentage = 0

\* a result of several quotes with a positive saving
C3_Witness ==
  /\ Succeeded
  /\ Len(aggregated.allQuotes) >= 2
  /\ aggregated.savings.absoluteAmount > 0
  /\ aggregated.savings.percentage > 0

\* C4: whenever at least one adapter contributed a quote, getAggregatedQuote
\* returns an AggregatedQuote; it fails only when the contribution of every
\* adapter is empty.
C4_FailsOnlyWhenAllEmpty ==
  pc = "done" =>
    /\ (\E a \in 1..Len(adapters) : results[a] # << >>) => Succeeded
    /\ aggregated.status = "error" =>
         \A a \in 1..Len(adapters) : results[a] = << >>

(***************************************************************************)
(* Properties of POST /api/aggregator/quote (checked under Spec).          *)
(***************************************************************************)
Answered200 == res.status = 200

V2Adapters == {a \in 1..Len(adapters) : adapters[a].version = "v2"}
LiveTiers == {i \in 1..Len(DEFAULT_FEE_TIERS) : tierResults[i] # << >>}
LiveV2 == {a \in V2Adapters : results[a] # << >>}

\* the fan-out of the request has joined with no quote at all
NoQuoteSurvived ==
  /\ adapterDone = 1..Len(adapters)
  /\ LiveV2 = {}
  /\ LiveTiers = {}

\* the messages that contain "No liquidity"
ContainsNoLiquidity(message) ==
  message \in {"No liquidity found for this token pair on any DEX"}

\* C5: when no quote survives across all adapters the request is answered
\* with HTTP 400, success = false and an error containing "No liquidity";
\* no success response has an empty allQuotes.
C5_NoLiquidityIs400 ==
  /\ (pc = "done" /\ NoQuoteSurvived) =>
       /\ res.status = 400
       /\ res.body.success = FALSE
       /\ ContainsNoLiquidity(res.body.error)
  /\ Answered200 => Len(res.body.allQuotes) >= 1

\* the pair is missing on V2 and every V3 tier failed, and the request is
\* answered
C5_Witness ==
  /\ pc = "done"
  /\ NoQuoteSurvived
  /\ tierDone = 1..Len(DEFAULT_FEE_TIERS)
  /\ res.status = 400

\* the elements of a response that carry the quote of one venue
ElementsOfV2(a) ==
  {k \in 1..Len(res.body.allQuotes) :
     /\ res.body.allQuotes[k].dex = "V2"
     /\ res.body.allQuotes[k].dexName = adapters[a].name
     /\ res.body.allQuotes[k].amountOutWei = ToString(results[a][1].amountOut)}
ElementsOfTier(i) ==
  {k \in 1..Len(res.body.allQuotes) :
     /\ res.body.allQuotes[k].dex = "V3"
     /\ res.body.allQuotes[k].feeTier = DEFAULT_FEE_TIERS[i]
     /\ res.body.allQuotes[k].amountOutWei = ToString(tierResults[i][1].amountOut)}

HasRouteArtifact(element) ==
  /\ {"transaction", "approval"} \subseteq DOMAIN element
  /\ DOMAIN element.transaction = {"to", "data", "value", "from"}
  /\ "needed" \in DOMAIN element.approval

\* C6: in every successful response allQuotes has exactly one element per
\* surviving venue quote, and each element carries its own transaction
\* {to, data, value, from} and approval descriptor.
C6_EveryQuoteHasRoute ==
  Answered200 =>
    /\ Len(res.body.allQuotes) = Cardinality(LiveV2) + Cardinality(LiveTiers)
    /\ \A a \in LiveV2 : Cardinality(ElementsOfV2(a)) = 1
    /\ \A i \in LiveTiers : Cardinality(ElementsOfTier(i)) = 1
    /\ \A k \in 1..Len(res.body.allQuotes) :
         HasRouteArtifact(res.body.allQuotes[k])

\* a response with the V2 quote and several V3 quotes
C6_Witness ==
  /\ Answered200
  /\ LiveV2 # {}
  /\ Cardinality(LiveTiers) >= 2
  /\ Len(res.body.allQuotes) >= 3

\* the routes of a response: bestRoute and every element of allQuotes
RoutesOfResponse ==
  {res.body.bestRoute} \cup
    {res.body.allQuotes[k] : k \in 1..Len(res.body.allQuotes)}

\* the request names the native sentinel as its input token
NativeInput == req.tokenIn \in {NATIVE_TOKEN_ADDRESS, NativeLower}

\* C7: for bestRoute and every element of allQuotes, transaction.value is
\* the input amount in integer units when tokenIn is the native sentinel
\* and "0" otherwise, for V2 and V3 routes alike.
C7_ValueToSend ==
  Answered200 =>
    \A route \in RoutesOfResponse :
      route.transaction.value =
        IF NativeInput THEN ToString(amountInParsed) ELSE "0"

\* a response to a native input with a V2 and a V3 route that send value
C7_Witness ==
  /\ Answered200
  /\ NativeInput
  /\ amountInParsed > 0
  /\ \E r1, r2 \in RoutesOfResponse :
       /\ r1.dex = "V2" /\ r2.dex = "V3"
       /\ r1.transaction.value = ToString(amountInParsed)
       /\ r2.transaction.value = ToString(amountInParsed)

\* the router the configuration assigns to a protocol
ConfiguredRouter(dex) == IF dex = "V3" THEN "0xV3Router" ELSE "0xV2Router"

\* the decision the approval pre-check is to take for a route, given the
\* outcome of its allowance read
ApprovalDecision(route, read) ==
  IF NativeInput THEN FALSE
  ELSE IF req.userAddress = "" THEN TRUE
  ELSE IF read = "failed" THEN TRUE
  ELSE allowance[ConfiguredRouter(route.dex)] < amountInParsed

\* C8: approval.needed is false for a native input; otherwise true without
\* a userAddress; otherwise true when the allowance read fails; otherwise
\* true exactly when allowance(userAddress, router of the route) < amountIn.
C8_ApprovalDecision ==
  Answered200 =>
    /\ \A k \in 1..Len(res.body.allQuotes) :
         res.body.allQuotes[k].approval.needed =
           ApprovalDecision(res.body.allQuotes[k], allowanceReads[k])
    /\ res.body.bestRoute.approval.needed =
         ApprovalDecision(res.body.bestRoute, bestAllowanceRead)

\* a response in which one allowance read failed and another found the
\* allowance sufficient
C8_Witness ==
  /\ Answered200
  /\ \E k1, k2 \in 1..Len(res.body.allQuotes) :
       /\ allowanceReads[k1] = "failed"
       /\ res.body.allQuotes[k1].approval.needed
       /\ allowanceReads[k2] = "ok"
       /\ ~res.body.allQuotes[k2].approval.needed
       /\ allowance[ConfiguredRouter(res.body.allQuotes[k2].dex)] = amountInParsed

\* C9: approval is decided per route: a sufficient allowance to the router
\* of one quote never makes approval.needed false for a quote of the same
\* response that goes through another router whose allowance is
\* insufficient, and the approval names the route's own router as spender.
C9_ApprovalPerRoute ==
  (Answered200 /\ ~NativeInput /\ req.userAddress # "") =>
    \A k \in 1..Len(res.body.allQuotes) :
      LET route == res.body.allQuotes[k]
          own == ConfiguredRouter(route.dex)
      IN /\ route.transaction.to = own
         /\ allowance[own] < amountInParsed =>
              /\ route.approval.needed
              /\ route.approval.spender = own
         /\ (allowance[own] >= amountInParsed /\ allowanceReads[k] = "ok") =>
              ~route.approval.needed

\* a response with a route whose router has a sufficient allowance and a
\* sibling route whose other router has none
C9_Witness ==
  /\ Answered200
  /\ \E k1, k2 \in 1..Len(res.body.allQuotes) :
       LET r1 == res.body.allQuotes[k1]
           r2 == res.body.allQuotes[k2]
       IN /\ r1.transaction.to # r2.transaction.to
          /\ allowance[r1.transaction.to] >= amountInParsed
          /\ allowance[r2.transaction.to] = 0
          /\ allowanceReads[k1] = "ok"
          /\ ~r1.approval.needed
          /\ r2.approval.needed

\* m = floor(amountOut * (10000 - floor(slippage * 100)) / 10000), stated
\* by the bounds of the two floors
IsSlippageFloor(m, amountOut, slippage) ==
  \E bps \in 0..10000 :
    /\ bps * 10 <= slippage
    /\ slippage < (bps + 1) * 10
    /\ m * 10000 <= amountOut * (10000 - bps)
    /\ amountOut * (10000 - bps) < (m + 1) * 10000

V3Adapters == {a \in 1..Len(adapters) : adapters[a].version = "v3"}

\* number of quotes of a list that carry the fee tier
QuotesOfTier(quotes, feeTier) ==
  Cardinality({k \in 1..Len(quotes) :
                 "feeTier" \in DOMAIN quotes[k] /\ quotes[k].feeTier = feeTier})

TiersSucceeded == {i \in 1..Len(DEFAULT_FEE_TIERS) : tierReads[i] = "none"}

\* C11: V3DexAdapter.getAllQuotes never raises, and whatever fee tiers fail
\* (missing pool, revert, zero reserve, transport error) and in whatever
\* order the four queries complete, it returns exactly one quote for each
\* tier that succeeded and none for the tiers that failed.
C11_V3NeverRaises ==
  /\ V3Adapters \cap raised = {}
  /\ \A a \in V3Adapters \cap adapterDone :
       /\ Len(results[a]) = Cardinality(TiersSucceeded)
       /\ \A i \in 1..Len(DEFAULT_FEE_TIERS) :
            QuotesOfTier(results[a], DEFAULT_FEE_TIERS[i]) =
              IF i \in TiersSucceeded THEN 1 ELSE 0

\* the V3 adapter has returned after a transport error, a missing pool and
\* two successful tiers
C11_Witness ==
  /\ V3Adapters \cap adapterDone # {}
  /\ tierReads[1] = "transport"
  /\ tierReads[2] = "none"
  /\ tierReads[3] = "not_found"
  /\ tierReads[4] = "none"
  /\ \A a \in V3Adapters : Len(results[a]) = 2

V2AdaptersDone == {a \in adapterDone : adapters[a].version = "v2"}

\* C12: V2DexAdapter.getAllQuotes returns an empty list without raising on
\* a missing pair, a revert or a zero reserve, and raises an unexpected
\* transport failure of a chain read to its caller.
C12_V2FailurePolicy ==
  \A a \in V2AdaptersDone :
    /\ pairReads[a] \in {"not_found", "revert", "zero_reserve"} =>
         results[a] = << >> /\ a \notin raised
    /\ pairReads[a] = "transport" => a \in raised

\* the quotes the adapters have emitted so far
EmittedQuotes ==
  UNION {{results[a][k] : k \in 1..Len(results[a])} :
           a \in 1..Len(adapters)}
    \cup UNION {{tierResults[i][k] : k \in 1..Len(tierResults[i])} :
                  i \in 1..Len(DEFAULT_FEE_TIERS)}

\* C17: every quote an adapter emits has amountOut > 0, and has a feeTier
\* exactly when its protocol is V3.
C17_VenueQuoteInvariant ==
  \A q \in EmittedQuotes :
    /\ q.amountOut > 0
    /\ ("feeTier" \in DOMAIN q) <=> (q.dex = "V3")

(***************************************************************************)
(* Chain reads of the POST /api/aggregator/quote handler (checked under    *)
(* Spec).                                                                  *)
(***************************************************************************)
\* C13: while a request whose tokenIn or tokenOut is the native sentinel
\* address (in any letter case) is handled, no ERC-20 contract read (name,
\* symbol, decimals, allowance) is issued against the sentinel address.
C13_NoErc20ReadOnNative ==
  (isNativeToken(req.tokenIn) \/ isNativeToken(req.tokenOut)) =>
    \A read \in erc20Reads : ~isNativeToken(read.address)

\* amountIn is present and a non-negative decimal
IsNonNegativeDecimal(s) ==
  /\ s # << >>
  /\ Head(s) # "-"
  /\ IsDecimalNumber(s)
  /\ \E i \in 1..Len(s) : s[i] \in Digits

\* the requests the validation of the handler has to reject
InvalidInput ==
  \/ req.tokenIn = "" \/ req.tokenOut = "" \/ req.amountIn = << >>
  \/ ~isAddress(req.tokenIn) \/ ~isAddress(req.tokenOut)
  \/ ~IsNonNegativeDecimal(req.amountIn)
  \/ req.slippage < 0 \/ req.slippage > 100000

\* no call of the chain reader has been issued for the request
NoChainCalls ==
  /\ erc20Reads = {}
  /\ \A a \in DOMAIN pairReads : pairReads[a] = "pending"
  /\ \A i \in DOMAIN tierReads : tierReads[i] = "pending"

\* C14: a request with a missing field, a malformed tokenIn or tokenOut
\* address, an amountIn that is not a non-negative decimal or a slippage
\* outside [0, 100] is answered with HTTP 400, and no chain-reader call is
\* issued for it.
C14_InvalidInputIs400 ==
  InvalidInput =>
    /\ NoChainCalls
    /\ pc = "done" => res.status = 400

(***************************************************************************)
(* Termination of a request (checked under SpecLive).                      *)
(***************************************************************************)
\* some chain read of the request never completes
ReadHangs ==
  \/ \E a \in DOMAIN pairReads : pairReads[a] = "never"
  \/ \E i \in DOMAIN tierReads : tierReads[i] = "never"

LowercaseCtx ==
  [Ctx EXCEPT !.tokenIn = toLowerCase(@), !.tokenOut = toLowerCase(@),
              !.userAddress = toLowerCase(@)]

\* the success body the handler builds for the lowercase request against
\* the same chain state: the same quotes, allowances and read outcomes
LowercaseResponse ==
  QuoteResponse(aggregated, LowercaseCtx, allowance,
                [i \in 1..Len(aggregated.allQuotes) |->
                   FormatQuote(aggregated.allQuotes[i], LowercaseCtx,
                               allowance, allowanceReads[i])],
                bestAllowanceRead)

\* the addresses of one route of the response
AddressesOfRoute(route) ==
  {route.poolAddress, route.transaction.to, route.transaction.from}
    \cup (IF route.approval.needed
          THEN {route.approval.token, route.approval.spender} ELSE {})

AddressesOfResponse ==
  {res.body.tokenIn.address, res.body.tokenOut.address}
    \cup AddressesOfRoute(res.body.bestRoute)
    \cup UNION {AddressesOfRoute(res.body.allQuotes[k]) :
                  k \in 1..Len(res.body.allQuotes)}

\* C16: the response to a request equals the response to the request with
\* tokenIn, tokenOut and userAddress in lowercase against the same chain
\* state, and every address in the response is lowercase hex.
C16_CaseInsensitive ==
  Answered200 =>
    /\ res.body = LowercaseResponse
    /\ \A a \in AddressesOfResponse : toLowerCase(a) = a

(***************************************************************************)
(* Properties of the V2 math utilities (checked under SpecMath).           *)
(***************************************************************************)
Quoted == calc.phase \in {"quoted", "impact"}

ValidTrade == calc.amountIn > 0 /\ calc.reserveIn > 0 /\ calc.reserveOut > 0

\* q is the floor of num / den, for den > 0
IsFloorOf(q, num, den) == q * den <= num /\ num < (q + 1) * den

\* C18: for amountIn > 0 and reserves > 0, getAmountOut returns
\* floor((amountIn*997*reserveOut) / (reserveIn*1000 + amountIn*997)), and
\* this value is strictly less than reserveOut.
C18_GetAmountOut ==
  (Quoted /\ ValidTrade) =>
    /\ calc.quote.error = "none"
    /\ IsFloorOf(calc.quote.amountOut,
                 calc.amountIn * 997 * calc.reserveOut,
                 calc.reserveIn * 1000 + calc.amountIn * 997)
    /\ calc.quote.amountOut < calc.reserveOut

\* a quote whose division leaves a remainder and whose result is not zero
C18_Witness ==
  /\ Quoted
  /\ ValidTrade
  /\ calc.quote.amountOut >= 1
  /\ calc.quote.amountOut * (calc.reserveIn * 1000 + calc.amountIn * 997)
       < calc.amountIn * 997 * calc.reserveOut

\* comparison of two fractions with positive denominators
FractionLeq(x, y) == x.num * y.den <= y.num * x.den

\* the impact V2DexAdapter.getQuote reports for an amount on the reserves of
\* the call
ImpactOf(amountIn) ==
  calculateV2PriceImpact(
    calc.reserveIn, calc.reserveOut, amountIn,
    getAmountOut(amountIn, calc.reserveIn, calc.reserveOut).amountOut)

\* C19: for a fixed pool state the reported price impact is monotonically
\* non-decreasing in amountIn: a1 <= a2 implies impact(a1) <= impact(a2).
C19_ImpactMonotone ==
  calc.phase = "impact" =>
    \A a2 \in calc.amountIn..MaxTradeIn :
      FractionLeq(calc.priceImpact, ImpactOf(a2))

(***************************************************************************)
(* Adapter registration (checked under SpecStartup).                       *)
(***************************************************************************)
IsSet(value) == value \notin {"undefined", ""}

V2Configured == IsSet(env.FACTORY_ADDRESS) /\ IsSet(env.ROUTER_ADDRESS)
V3Configured == IsSet(env.V3_FACTORY_ADDRESS) /\ IsSet(env.V3_QUOTER_ADDRESS)

RegisteredVersions ==
  {service.adapters[k].version : k \in 1..Len(service.adapters)}

\* C20: once the server has started, a V2 adapter is registered only when
\* the V2 factory and router addresses are configured, a V3 adapter only
\* when the V3 factory and quoter addresses are configured, and with
\* neither configured startup has failed.
C20_AdaptersFollowConfig ==
  service.status # "stopped" =>
    IF ~V2Configured /\ ~V3Configured
    THEN service.status = "failed"
    ELSE /\ service.status = "running"
         /\ ("v2" \in RegisteredVersions) <=> V2Configured
         /\ ("v3" \in RegisteredVersions) <=> V3Configured

(***************************************************************************)
(* The best route and its allQuotes element (checked under Spec).          *)
(***************************************************************************)
\* the positions of allQuotes that hold the best quote
BestElements ==
  {k \in 1..Len(aggregated.allQuotes) :
     aggregated.allQuotes[k] = aggregated.bestQuote}

\* C23: in every 200 response bestRoute carries the same route artifact as
\* the allQuotes element of the same quote: equal transaction (to, data,
\* value) and equal approval.needed, whatever the two allowance reads did.
C23_BestRouteMatchesElement ==
  Answered200 =>
    \A k \in BestElements :
      LET element == res.body.allQuotes[k]
          best == res.body.bestRoute
      IN /\ element.transaction.to = best.transaction.to
         /\ element.transaction.data = best.transaction.data
         /\ element.transaction.value = best.transaction.value
         /\ element.approval.needed = best.approval.needed

(***************************************************************************)
(* Web client: the TokensApi singleton.                                    *)
(***************************************************************************)
\* the clock of the browser stops here
MaxClock == 7

\* what apiClient.get('/api/v2/tokens', {retries: 2}) settles with: a body
\* with or without success and data.tokens, or a raised error
TokenFetchOutcomes ==
  {[kind |-> "response", success |-> TRUE, tokens |-> t, error |-> "none"] :
     t \in {"tokens1", "tokens2", "undefined"}}
  \cup {[kind |-> "response", success |-> FALSE, tokens |-> "undefined",
         error |-> "none"]}
  \cup {[kind |-> "thrown", success |-> FALSE, tokens |-> "undefined",
         error |-> e] : e \in {"ApiError", "NetworkError"}}

\* the fetch did not deliver a token list
FetchFailed(outcome) ==
  ~(outcome.kind = "response" /\ outcome.success
      /\ outcome.tokens # "undefined")

isCacheValid(api) ==
  /\ api.cache # "null"
  /\ api.clock - api.cacheTimestamp < api.CACHE_DURATION

getCachedTokens(api) == IF isCacheValid(api) THEN api.cache ELSE "null"

clearCache(api) == [api EXCEPT !.cache = "null", !.cacheTimestamp = 0]

\* getTokens from its entry to its first await: the cached list when it is
\* fresh, the fetch otherwise
GetTokensEnters(api, useCache, method, cacheBefore) ==
  LET now == api.clock
      fresh == /\ useCache
               /\ api.cache # "null"
               /\ now - api.cacheTimestamp < api.CACHE_DURATION
  IN [api EXCEPT !.call =
        [phase |-> IF fresh THEN "done" ELSE "fetching",
         method |-> method, useCache |-> useCache, now |-> now,
         cacheBefore |-> cacheBefore,
         fetch |-> NoFetch,
         result |-> IF fresh THEN Returned(api.cache) ELSE Raised("pending")]]

\* a catch block that rethrows whatever is cached
GetTokensResumes_NoFallback(api, outcome) ==
  IF ~FetchFailed(outcome)
  THEN [api EXCEPT !.cache = outcome.tokens,
                   !.cacheTimestamp = api.call.now,
                   !.call.phase = "done",
                   !.call.fetch = outcome,
                   !.call.result = Returned(outcome.tokens)]
  ELSE [api EXCEPT !.call.phase = "done",
                   !.call.fetch = outcome,
                   !.call.result = Raised("handleApiError")]

\* getTokens from the settling of apiClient.get to its return or throw
GetTokensResumes(api, outcome) ==
  IF ~FetchFailed(outcome)
  THEN [api EXCEPT !.cache = outcome.tokens,
                   !.cacheTimestamp = api.call.now,
                   !.call.phase = "done",
                   !.call.fetch = outcome,
                   !.call.result = Returned(outcome.tokens)]
  ELSE IF api.cache # "null"
  THEN [api EXCEPT !.call.phase = "done",
                   !.call.fetch = outcome,
                   !.call.result = Returned(api.cache)]
  ELSE [api EXCEPT !.call.phase = "done",
                   !.call.fetch = outcome,
                   !.call.result = Raised("handleApiError")]

\* the state of the server
ServerVars == << RequestVars, calc, env, service >>

\* the page has loaded and mounted the client, with a connected wallet;
\* caller names the part of the client that is exercised
InitClient(caller) ==
  /\ entry = caller
  /\ pc = "client"
  /\ NoRequest
  /\ calc = NoCalc
  /\ env = ConfiguredEnv
  /\ service = [status |-> "running", adapters |-> Construct(env)]
  /\ ClientConstructed

\* tokensApi.getTokens(useCache) is called
GetTokens ==
  /\ tokensApi.call.phase \in {"idle", "done"}
  /\ \E useCache \in BOOLEAN :
       tokensApi' = GetTokensEnters(tokensApi, useCache, "getTokens",
                                    tokensApi.cache)
  /\ UNCHANGED << ServerVars, apiClient, swapExec, viewModel >>

\* tokensApi.refreshTokens() is called: clearCache(), then getTokens(false)
RefreshTokens ==
  /\ tokensApi.call.phase \in {"idle", "done"}
  /\ tokensApi' = GetTokensEnters(clearCache(tokensApi), FALSE,
                                  "refreshTokens", tokensApi.cache)
  /\ UNCHANGED << ServerVars, apiClient, swapExec, viewModel >>

\* the apiClient.get of the call in flight settles
TokenFetchSettles ==
  /\ tokensApi.call.phase = "fetching"
  /\ \E outcome \in TokenFetchOutcomes :
       tokensApi' = GetTokensResumes(tokensApi, outcome)
  /\ UNCHANGED << ServerVars, apiClient, swapExec, viewModel >>

\* tokensApi.clearCache() is called, between calls or during a fetch
ClearCache ==
  /\ tokensApi.cache # "null"
  /\ tokensApi' = clearCache(tokensApi)
  /\ UNCHANGED << ServerVars, apiClient, swapExec, viewModel >>

\* tokensApi.getCachedTokens() is called
GetCachedTokens ==
  /\ tokensApi.call.phase \in {"idle", "done"}
  /\ tokensApi' =
       [tokensApi EXCEPT !.call =
          [phase |-> "done", method |-> "getCachedTokens",
           useCache |-> TRUE, now |-> tokensApi.clock,
           cacheBefore |-> tokensApi.cache, fetch |-> NoFetch,
           result |-> Returned(getCachedTokens(tokensApi))]]
  /\ UNCHANGED << ServerVars, apiClient, swapExec, viewModel >>

\* a minute passes
ClockAdvances ==
  /\ tokensApi.clock < MaxClock
  /\ tokensApi' = [tokensApi EXCEPT !.clock = tokensApi.clock + 1]
  /\ UNCHANGED << ServerVars, apiClient, swapExec, viewModel >>

NextTokens ==
  \/ GetTokens
  \/ RefreshTokens
  \/ TokenFetchSettles
  \/ ClearCache
  \/ GetCachedTokens
  \/ ClockAdvances

SpecTokens == InitClient("tokens") /\ [][NextTokens]_vars

\* a call whose fetch failed has just returned or thrown
FailedTokensCall ==
  /\ tokensApi.call.phase = "done"
  /\ tokensApi.call.fetch.kind # "none"
  /\ FetchFailed(tokensApi.call.fetch)

\* C21: when the fetch of getTokens fails (error raised by the API client,
\* or a body without success or without tokens) while a token list is
\* cached, expired or not, the call returns that list and leaves the cache
\* and its timestamp unchanged; it raises only when no list is cached.
C21_StaleOnError ==
  [][(tokensApi.call.phase = "fetching" /\ FailedTokensCall')
       => IF tokensApi.cache # "null"
          THEN /\ tokensApi'.call.result = Returned(tokensApi.cache)
               /\ tokensApi'.cache = tokensApi.cache
               /\ tokensApi'.cacheTimestamp = tokensApi.cacheTimestamp
          ELSE /\ tokensApi'.call.result.status = "raised"
               /\ tokensApi'.cache = "null"]_vars

\* a getTokens call whose fetch failed has returned the expired cached list
C21_Witness ==
  /\ FailedTokensCall
  /\ tokensApi.call.method = "getTokens"
  /\ tokensApi.cache # "null"
  /\ tokensApi.clock - tokensApi.cacheTimestamp >= tokensApi.CACHE_DURATION
  /\ tokensApi.call.result = Returned(tokensApi.cache)

\* C30: a refreshTokens call whose fetch fails while a token list was cached
\* before the call returns that list, and the cache still holds it.
C30_RefreshKeepsCache ==
  (/\ FailedTokensCall
   /\ tokensApi.call.method = "refreshTokens"
   /\ tokensApi.call.cacheBefore # "null")
    => /\ tokensApi.call.result = Returned(tokensApi.call.cacheBefore)
       /\ tokensApi.cache = tokensApi.call.cacheBefore

(***************************************************************************)
(* Web client: ApiClient.request.                                          *)
(***************************************************************************)
\* the largest retries a caller passes
MaxRetries == 2

\* what one fetchWithTimeout and the reading of its body can do: a response
\* with a status and a body that is JSON or not, the abort of the timeout,
\* or a network failure
AttemptOutcomes ==
  {[kind |-> "response", status |-> st, body |-> b] :
     st \in {200, 404, 500}, b \in {"json", "unparsable"}}
  \cup {[kind |-> k, status |-> 0, body |-> "none"] :
          k \in {"timeout", "network"}}

\* the error the try block raises for an attempt, "none" when it returns
AttemptError(outcome) ==
  IF outcome.kind = "timeout" THEN "NetworkError"
  ELSE IF outcome.kind = "network" THEN "TypeError"
  ELSE IF outcome.status \notin 200..299 THEN "ApiError"
  ELSE IF outcome.body = "unparsable" THEN "SyntaxError"
  ELSE "none"

\* the for statement tests attempt <= retries: the next fetch, or the
\* NetworkError after the loop
LoopTest(call) ==
  IF call.attempt <= call.retries
  THEN [call EXCEPT !.phase = "fetching"]
  ELSE [call EXCEPT !.phase = "done",
                    !.result = Raised("NetworkError")]

\* one iteration of the loop from the settling of fetchWithTimeout: return,
\* throw, wait for the backoff delay, or leave the loop
AttemptResumes(call, outcome) ==
  LET error == AttemptError(outcome)
      logged == [call EXCEPT !.log = Append(call.log, outcome)]
  IN IF error = "none"
     THEN [logged EXCEPT !.phase = "done", !.result = Returned("data")]
     ELSE IF error = "ApiError" /\ outcome.status # 0 /\ outcome.status < 500
     THEN [logged EXCEPT !.phase = "done", !.lastError = error,
                         !.result = Raised("ApiError")]
     ELSE IF call.attempt < call.retries
     THEN [logged EXCEPT !.phase = "delay", !.lastError = error]
     ELSE LoopTest([logged EXCEPT !.lastError = error,
                                  !.attempt = call.attempt + 1])

\* apiClient.request(endpoint, {retries}) is called
RequestEnters ==
  /\ apiClient.phase = "idle"
  /\ \E retries \in 0..MaxRetries :
       apiClient' = LoopTest([apiClient EXCEPT !.retries = retries])
  /\ UNCHANGED << ServerVars, tokensApi, swapExec, viewModel >>

\* the fetch of the current attempt settles and its body is read
AttemptSettles ==
  /\ apiClient.phase = "fetching"
  /\ \E outcome \in AttemptOutcomes :
       apiClient' = AttemptResumes(apiClient, outcome)
  /\ UNCHANGED << ServerVars, tokensApi, swapExec, viewModel >>

\* the timer of delay(2^attempt * 1000) fires: attempt++ and the loop test
DelayElapses ==
  /\ apiClient.phase = "delay"
  /\ apiClient' = LoopTest([apiClient EXCEPT !.attempt = apiClient.attempt + 1])
  /\ UNCHANGED << ServerVars, tokensApi, swapExec, viewModel >>

NextApiClient ==
  \/ RequestEnters
  \/ AttemptSettles
  \/ DelayElapses

SpecApiClient == InitClient("apiClient") /\ [][NextApiClient]_vars

Is2xx(outcome) == outcome.kind = "response" /\ outcome.status \in 200..299
Is4xx(outcome) == outcome.kind = "response" /\ outcome.status \in 400..499
Retryable(outcome) ==
  \/ outcome.kind \in {"timeout", "network"}
  \/ outcome.kind = "response" /\ outcome.status \in 500..599

\* C22: a request makes at most retries + 1 fetch attempts; it stops at the
\* first 2xx response, returning its body, or at the first 4xx response,
\* raising that ApiError; every attempt followed by another one was a 5xx
\* response, a timeout or a network error; and when all retries + 1
\* attempts have failed it raises NetworkError.
C22_RequestTerminates ==
  LET n == Len(apiClient.log)
  IN /\ n <= apiClient.retries + 1
     /\ \A k \in 1..n :
          (k < n \/ apiClient.phase # "done") => Retryable(apiClient.log[k])
     /\ (apiClient.phase = "done" /\ n > 0) =>
          LET last == apiClient.log[n]
          IN /\ Is2xx(last) => apiClient.result = Returned("data")
             /\ Is4xx(last) => apiClient.result = Raised("ApiError")
             /\ Retryable(last) =>
                  /\ n = apiClient.retries + 1
                  /\ apiClient.result = Raised("NetworkError")

(***************************************************************************)
(* Web client: the useSwapExecution hook, its approval hook and the wallet. *)
(***************************************************************************)
\* executeSwap calls made on one mounted hook
MaxCalls == 3

\* a writeContract that keeps the receipt of the previous approval
writeContract_KeepsReceipt(approve, call) ==
  IF approve.status = "success" THEN approve
  ELSE [status |-> "wallet", call |-> call]

\* writeContract of useWriteContract: a new mutation replaces the previous
\* one, its hash is undefined until the wallet has signed
writeContract(approve, call) == [status |-> "wallet", call |-> call]

\* sendTransaction of useSendTransaction: a new mutation, as above
sendTransaction(send, call) == [status |-> "wallet", call |-> call]

\* the catch block of executeSwap
ExecuteSwapThrows(h, message) ==
  [h EXCEPT !.error = message,
            !.pendingSwapTx = [call |-> 0, tx |-> NoTransaction],
            !.needsApproval = FALSE]

\* executeSwap(transaction, approvalInfo, tokenInAddress), with approveToken
\* up to its writeContract; the wallet is connected
executeSwap(h, transaction, approvalInfo, tokenInAddress) ==
  LET call == h.calls + 1
      entered == [h EXCEPT !.error = "null", !.calls = call]
  IN IF approvalInfo.defined /\ approvalInfo.needed
     THEN IF tokenInAddress = ""
          THEN ExecuteSwapThrows(entered,
                                 "Token address is required for approval")
          ELSE IF transaction.to = ""
          THEN ExecuteSwapThrows(entered, "Invalid token or spender address")
          ELSE [entered EXCEPT
                  !.needsApproval = TRUE,
                  !.pendingSwapTx = [call |-> call, tx |-> transaction],
                  !.approve = writeContract(h.approve, call),
                  !.approvals = Append(h.approvals,
                                       [call |-> call,
                                        token |-> tokenInAddress,
                                        spender |-> transaction.to])]
     ELSE [entered EXCEPT
             !.needsApproval = FALSE,
             !.send = sendTransaction(h.send, call),
             !.sent = Append(h.sent, [call |-> call, tx |-> transaction,
                                      by |-> "executeSwap"])]

\* reset(): resetSend, resetApproval and the three React states
ResetSwapExecution(h) ==
  [h EXCEPT !.send = IdleMutation, !.approve = IdleMutation,
            !.error = "null", !.needsApproval = FALSE,
            !.pendingSwapTx = [call |-> 0, tx |-> NoTransaction]]

\* the values the hook derives from the two mutations
approvalSuccess == swapExec.approve.status = "success"
isExecuting == swapExec.send.status = "wallet"
isSuccess == swapExec.send.status = "success"

\* executeSwap is called on the hook with the transaction of a route, an
\* ApprovalInfo or undefined, and the address of the token or none
ExecuteSwap ==
  /\ swapExec.calls < MaxCalls
  /\ \E router \in Routers, tokenInAddress \in {"", WETH},
        approvalInfo \in {[defined |-> FALSE, needed |-> FALSE],
                          [defined |-> TRUE, needed |-> FALSE],
                          [defined |-> TRUE, needed |-> TRUE]} :
       swapExec' = executeSwap(swapExec,
                               [to |-> router, data |-> "swap",
                                value |-> "0", from |-> ZeroAddress],
                               approvalInfo, tokenInAddress)
  /\ UNCHANGED << ServerVars, tokensApi, apiClient, viewModel >>

\* the effect that sends the pending swap once the approval has succeeded
AutoExecute ==
  /\ approvalSuccess
  /\ swapExec.pendingSwapTx.call # 0
  /\ ~isExecuting
  /\ ~isSuccess
  /\ swapExec' =
       [swapExec EXCEPT
          !.send = sendTransaction(swapExec.send, swapExec.pendingSwapTx.call),
          !.sent = Append(swapExec.sent,
                          [call |-> swapExec.pendingSwapTx.call,
                           tx |-> swapExec.pendingSwapTx.tx,
                           by |-> "effect"]),
          !.pendingSwapTx = [call |-> 0, tx |-> NoTransaction],
          !.needsApproval = FALSE]
  /\ UNCHANGED << ServerVars, tokensApi, apiClient, viewModel >>

\* the user signs the approval in the wallet: the mutation gets its hash
WalletSignsApproval ==
  /\ swapExec.approve.status = "wallet"
  /\ swapExec' = [swapExec EXCEPT !.approve.status = "confirming"]
  /\ UNCHANGED << ServerVars, tokensApi, apiClient, viewModel >>

\* the user rejects the approval in the wallet
WalletRejectsApproval ==
  /\ swapExec.approve.status = "wallet"
  /\ swapExec' = [swapExec EXCEPT !.approve.status = "error"]
  /\ UNCHANGED << ServerVars, tokensApi, apiClient, viewModel >>

\* useWaitForTransactionReceipt of the approval hash settles
ApprovalReceipt ==
  /\ swapExec.approve.status = "confirming"
  /\ \/ swapExec' = [swapExec EXCEPT
                       !.approve.status = "success",
                       !.approved = swapExec.approved
                                      \cup {swapExec.approve.call}]
     \/ swapExec' = [swapExec EXCEPT !.approve.status = "error"]
  /\ UNCHANGED << ServerVars, tokensApi, apiClient, viewModel >>

\* the user signs the swap in the wallet
WalletSignsSwap ==
  /\ swapExec.send.status = "wallet"
  /\ swapExec' = [swapExec EXCEPT !.send.status = "confirming"]
  /\ UNCHANGED << ServerVars, tokensApi, apiClient, viewModel >>

\* the user rejects the swap in the wallet
WalletRejectsSwap ==
  /\ swapExec.send.status = "wallet"
  /\ swapExec' = [swapExec EXCEPT !.send.status = "error"]
  /\ UNCHANGED << ServerVars, tokensApi, apiClient, viewModel >>

\* useWaitForTransactionReceipt of the swap hash settles
SwapReceipt ==
  /\ swapExec.send.status = "confirming"
  /\ \E status \in {"success", "error"} :
       swapExec' = [swapExec EXCEPT !.send.status = status]
  /\ UNCHANGED << ServerVars, tokensApi, apiClient, viewModel >>

\* reset() is called (the timers of the swap view, or the caller)
ResetSwap ==
  /\ swapExec # ResetSwapExecution(swapExec)
  /\ swapExec' = ResetSwapExecution(swapExec)
  /\ UNCHANGED << ServerVars, tokensApi, apiClient, viewModel >>

NextSwapExec ==
  \/ ExecuteSwap
  \/ AutoExecute
  \/ WalletSignsApproval
  \/ WalletRejectsApproval
  \/ ApprovalReceipt
  \/ WalletSignsSwap
  \/ WalletRejectsSwap
  \/ SwapReceipt
  \/ ResetSwap

SpecSwapExec == InitClient("swapExec") /\ [][NextSwapExec]_vars

MaxChanges == 2

\* getQuote requests in flight at a time
MaxInFlight == 2

\* the venues the server quotes, in the order of allQuotes
ClientVenues ==
  << [dex |-> "V2", dexName |-> "Uniswap V2 Fork 1", feeTier |-> 0,
      poolAddress |-> "0xPair", router |-> ROUTER_ADDRESS],
     [dex |-> "V3", dexName |-> "Uniswap V3 Fork 1", feeTier |-> 500,
      poolAddress |-> "0xPool500", router |-> V3_SWAP_ROUTER_ADDRESS],
     [dex |-> "V3", dexName |-> "Uniswap V3 Fork 1", feeTier |-> 3000,
      poolAddress |-> "0xPool3000", router |-> V3_SWAP_ROUTER_ADDRESS] >>

\* one element of allQuotes as the server formats it: the quote, its
\* transaction and, next to it, its approval descriptor
QuoteDetail(v, amountOut, needed) ==
  [dex |-> ClientVenues[v].dex, dexName |-> ClientVenues[v].dexName,
   feeTier |-> ClientVenues[v].feeTier,
   poolAddress |-> ClientVenues[v].poolAddress,
   amountOut |-> ToString(amountOut), priceImpact |-> "0",
   transaction |-> [to |-> ClientVenues[v].router,
                    data |-> ClientVenues[v].poolAddress,
                    value |-> "0", from |-> ZeroAddress],
   approval |-> [needed |-> needed,
                 message |-> IF needed THEN "Approval required"
                             ELSE "already approved"]]

RECURSIVE AscendingSeq(_)
AscendingSeq(S) ==
  IF S = {} THEN << >>
  ELSE LET m == CHOOSE x \in S : \A y \in S : x <= y
       IN << m >> \o AscendingSeq(S \ {m})

\* the body of a successful quote response: the venues of live answered,
\* a venue later in the list gives a larger output
ServerQuote(live, needed) ==
  LET order == AscendingSeq(live)
      best == order[Len(order)]
  IN [tokenOut |-> [amount |-> ToString(best)],
      bestRoute |-> QuoteDetail(best, best, needed),
      allQuotes |-> [k \in 1..Len(order) |->
                       QuoteDetail(order[k], order[k], needed)]]

\* what quotesApi.getQuote settles with: a quote, or an error; whether the
\* server reports approval.needed varies for the swap view only, the quote
\* state alone does not look at it
GetQuoteOutcomes(caller) ==
  {[ok |-> TRUE, quote |-> ServerQuote(live, needed)] :
     live \in (SUBSET (1..Len(ClientVenues))) \ {{}},
     needed \in IF caller = "swapView" THEN BOOLEAN ELSE {FALSE}}
  \cup {[ok |-> FALSE, quote |-> NoQuoteData]}

\* parseFloat of a decimal string without fraction
parseFloat(str) == CHOOSE n \in 0..9 : ToString(n) = str

\* routes.sort: a route goes before the first route its comparator puts it
\* before (BEST first, then by larger output)
RECURSIVE InsertRoute(_, _)
InsertRoute(r, sorted) ==
  LET before(a, b) ==
        IF a.type = "BEST" THEN TRUE
        ELSE IF b.type = "BEST" THEN FALSE
        ELSE parseFloat(b.estimatedOutput) - parseFloat(a.estimatedOutput) < 0
  IN IF sorted = << >> THEN << r >>
     ELSE IF before(r, Head(sorted)) THEN << r >> \o sorted
     ELSE << Head(sorted) >> \o InsertRoute(r, Tail(sorted))

RECURSIVE SortRoutes(_)
SortRoutes(routes) ==
  IF routes = << >> THEN << >>
  ELSE InsertRoute(routes[Len(routes)],
                   SortRoutes(SubSeq(routes, 1, Len(routes) - 1)))

\* convertQuoteToRoutes: one route per element of allQuotes, named by the
\* dex and the position of the element, carrying the transaction object
convertQuoteToRoutes(quoteData) ==
  IF Len(quoteData.allQuotes) = 0 THEN << >>
  ELSE
    LET outputs == {parseFloat(quoteData.allQuotes[k].amountOut) :
                      k \in 1..Len(quoteData.allQuotes)}
        maxOutput == CHOOSE m \in outputs : \A o \in outputs : o <= m
        route(index) ==
          LET quote == quoteData.allQuotes[index + 1]
              isBestRoute ==
                /\ quoteData.bestRoute.dex # ""
                /\ quote.poolAddress = quoteData.bestRoute.poolAddress
                /\ quote.dex = quoteData.bestRoute.dex
                /\ quote.amountOut = quoteData.bestRoute.amountOut
          IN [id |-> "route-" \o quote.dex \o "-" \o ToString(index),
              provider |-> quote.dex,
              estimatedOutput |-> quote.amountOut,
              type |-> IF parseFloat(quote.amountOut) = maxOutput
                       THEN "BEST" ELSE "CHEAPEST",
              poolAddress |-> quote.poolAddress,
              transaction |-> IF isBestRoute
                              THEN quoteData.bestRoute.transaction
                              ELSE quote.transaction]
    IN SortRoutes([k \in 1..Len(quoteData.allQuotes) |-> route(k - 1)])

\* the inputs pass the test of the debounce callback and of fetchQuote
Quotable(inputs) ==
  /\ inputs.fromToken # ""
  /\ inputs.toToken # ""
  /\ inputs.fromAmount # ""
  /\ parseFloat(inputs.fromAmount) > 0

\* the auto-select effect, run after every render
AutoSelect(vm) ==
  IF Len(vm.routes) > 0 /\ vm.selectedRouteId = "null"
  THEN LET isBest(k) == vm.routes[k].type = "BEST"
           bestRoute ==
             IF \E k \in 1..Len(vm.routes) : isBest(k)
             THEN vm.routes[CHOOSE k \in 1..Len(vm.routes) :
                              /\ isBest(k)
                              /\ \A j \in 1..(k - 1) : ~isBest(j)]
             ELSE vm.routes[1]
       IN [vm EXCEPT !.selectedRouteId = bestRoute.id]
  ELSE vm

\* fetchQuote(isInitialFetch) of the effect run gen, from its entry to its
\* await
fetchQuote(vm, gen, inputs, isInitialFetch) ==
  IF ~Quotable(inputs)
  THEN [vm EXCEPT !.quoteData = NoQuoteData, !.routes = << >>,
                  !.toAmount = "0.00"]
  ELSE IF inputs.availableTokens = "empty"
  THEN vm
  ELSE [vm EXCEPT !.quoteLoading = IF isInitialFetch THEN TRUE ELSE @,
                  !.isRefreshing = IF isInitialFetch THEN @ ELSE TRUE,
                  !.quoteError = "null",
                  !.requests = Append(@, [gen |-> gen,
                                          initial |-> isInitialFetch])]

\* a fetchQuote that applies a response whatever isActive says
fetchQuoteResumes_NoActiveCheck(vm, request, outcome) ==
  LET settled ==
        [vm EXCEPT !.quoteLoading = IF request.initial THEN FALSE ELSE @,
                   !.isRefreshing = IF request.initial THEN @ ELSE FALSE]
  IN IF outcome.ok
     THEN [settled EXCEPT !.quoteData = outcome.quote,
                          !.toAmount = outcome.quote.tokenOut.amount,
                          !.routes = convertQuoteToRoutes(outcome.quote)]
     ELSE [settled EXCEPT !.quoteError = "Failed to fetch quote",
                          !.quoteData = NoQuoteData,
                          !.routes = << >>]

\* fetchQuote from the settling of getQuote: try, catch and finally
fetchQuoteResumes(vm, request, outcome) ==
  LET settled ==
        [vm EXCEPT !.quoteLoading = IF request.initial THEN FALSE ELSE @,
                   !.isRefreshing = IF request.initial THEN @ ELSE FALSE]
  IN IF request.gen \notin vm.active
     THEN vm
     ELSE IF outcome.ok
     THEN [settled EXCEPT !.quoteData = outcome.quote,
                          !.toAmount = outcome.quote.tokenOut.amount,
                          !.routes = convertQuoteToRoutes(outcome.quote)]
     ELSE [settled EXCEPT !.quoteError = "Failed to fetch quote",
                          !.quoteData = NoQuoteData,
                          !.routes = << >>]

\* a dependency of the quote effect has changed: cleanup of the previous
\* run (isActive = false, its timeout and interval cleared), then the next
\* run with its debounce timer
RerunQuoteEffect(vm, inputs) ==
  LET cleaned == [vm EXCEPT !.active = @ \ {vm.gen},
                            !.timers = {t \in @ : t.gen # vm.gen}]
      gen == vm.gen + 1
  IN [cleaned EXCEPT !.inputs = inputs, !.gen = gen,
                     !.active = @ \cup {gen},
                     !.timers = @ \cup {DebounceTimer(gen, inputs)}]

RemoveAt(seq, k) == SubSeq(seq, 1, k - 1) \o SubSeq(seq, k + 1, Len(seq))

\* the values the user can give the inputs, and the token list once loaded;
\* the user of the swap view enters a quotable pair and amount
InputChoices(caller) ==
  IF caller = "swapView"
  THEN [fromToken : {"WETH"}, toToken : {"DAI"},
        fromAmount : {"1"}, availableTokens : {"loaded"}]
  ELSE [fromToken : {"", "WETH"}, toToken : {"DAI"},
        fromAmount : {"", "0", "1", "2"},
        availableTokens : {"empty", "loaded"}]

\* the user selects or deselects a token or edits the amount, or the token
\* list is loaded: the quote effect runs again
ChangeInputs ==
  /\ viewModel.gen <= MaxChanges
  /\ \E inputs \in InputChoices(entry) :
       /\ inputs # viewModel.inputs
       /\ viewModel' = RerunQuoteEffect(viewModel, inputs)
  /\ UNCHANGED << ServerVars, tokensApi, apiClient, swapExec >>

\* the debounce timer fires
DebounceFires ==
  /\ \E t \in viewModel.timers :
       /\ t.kind = "debounce"
       /\ Quotable(t.inputs) =>
            Len(viewModel.requests) < MaxInFlight
       /\ LET fired == [viewModel EXCEPT !.timers = @ \ {t}]
          IN viewModel' =
               IF Quotable(t.inputs)
               THEN AutoSelect(
                      [fetchQuote(fired, t.gen, t.inputs, TRUE) EXCEPT
                         !.timers = @ \cup {[t EXCEPT !.kind = "interval"]}])
               ELSE fired
  /\ UNCHANGED << ServerVars, tokensApi, apiClient, swapExec >>

\* the refresh interval fires
IntervalFires ==
  /\ \E t \in viewModel.timers :
       /\ t.kind = "interval"
       /\ Len(viewModel.requests) < MaxInFlight
       /\ viewModel' = AutoSelect(fetchQuote(viewModel, t.gen, t.inputs, FALSE))
  /\ UNCHANGED << ServerVars, tokensApi, apiClient, swapExec >>

\* the k-th getQuote request in flight settles
QuoteSettlesAt(k) ==
  /\ k <= Len(viewModel.requests)
  /\ \E outcome \in GetQuoteOutcomes(entry) :
       viewModel' =
         AutoSelect(fetchQuoteResumes(
                      [viewModel EXCEPT !.requests = RemoveAt(@, k)],
                      viewModel.requests[k], outcome))
  /\ UNCHANGED << ServerVars, tokensApi, apiClient, swapExec >>

\* a getQuote request settles
QuoteSettles == \E k \in 1..MaxInFlight + 1 : QuoteSettlesAt(k)

\* the user picks a route of the list
SelectRoute ==
  /\ \E k \in 1..Len(viewModel.routes) :
       /\ viewModel.routes[k].id # viewModel.selectedRouteId
       /\ viewModel' =
            [viewModel EXCEPT !.selectedRouteId = viewModel.routes[k].id]
  /\ UNCHANGED << ServerVars, tokensApi, apiClient, swapExec >>

NextViewModel ==
  \/ ChangeInputs
  \/ DebounceFires
  \/ IntervalFires
  \/ QuoteSettles
  \/ SelectRoute

SpecViewModel == InitClient("viewModel") /\ [][NextViewModel]_vars

\* timers fire when they are due, and every getQuote settles (the API
\* client bounds each attempt by its timeout): the oldest request in flight
\* is never left waiting forever
SpecViewModelLive ==
  /\ InitClient("viewModel")
  /\ [][NextViewModel]_vars
  /\ WF_vars(DebounceFires)
  /\ WF_vars(IntervalFires)
  /\ WF_vars(QuoteSettlesAt(1))

\* the positions of the requests issued by an earlier run of the effect
StaleRequests ==
  {k \in 1..Len(viewModel.requests) :
     viewModel.requests[k].gen # viewModel.gen}

\* C26: once an input of the quote effect has changed, the response or
\* error of a request issued under the previous inputs changes none of
\* quoteData, routes, toAmount and quoteError, and no timer of the previous
\* inputs is left to fire.
C26_StaleResponsesIgnored ==
  /\ [](\A t \in viewModel.timers : t.gen = viewModel.gen)
  /\ [][\A k \in StaleRequests :
          viewModel'.requests = RemoveAt(viewModel.requests, k)
            => /\ viewModel'.quoteData = viewModel.quoteData
               /\ viewModel'.routes = viewModel.routes
               /\ viewModel'.toAmount = viewModel.toAmount
               /\ viewModel'.quoteError = viewModel.quoteError]_vars

\* the inputs changed twice, the second time while the initial request of
\* the first change was in flight; that request has settled since and has
\* left the quote state alone, quoteLoading included
C26_Witness ==
  /\ viewModel.gen = 3
  /\ viewModel.requests = << >>
  /\ viewModel.quoteLoading
  /\ viewModel.quoteData = NoQuoteData
  /\ viewModel.quoteError = "null"

\* the debounce of the latest run of the effect has fired
Debounced ==
  \A t \in viewModel.timers : ~(t.kind = "debounce" /\ t.gen = viewModel.gen)

\* C27: when the inputs are not quotable (a token deselected, fromAmount
\* empty or not greater than 0) and the debounce has passed, quoteData is
\* null, routes is empty and toAmount is "0.00" (or still the empty string
\* of a view that has never shown a quote).
C27_UnquotableInputsReset ==
  (~Quotable(viewModel.inputs) /\ Debounced) =>
    /\ viewModel.quoteData = NoQuoteData
    /\ viewModel.routes = << >>
    /\ viewModel.toAmount \in {"0.00", ""}

\* C28: quoteLoading and isRefreshing always eventually return to false.
C28_FlagsReturnToFalse ==
  /\ viewModel.quoteLoading ~> ~viewModel.quoteLoading
  /\ viewModel.isRefreshing ~> ~viewModel.isRefreshing

\* the pool of the route that id names in routes, "none" without such a route
PoolOfRoute(routes, id) ==
  IF \E k \in 1..Len(routes) : routes[k].id = id
  THEN routes[CHOOSE k \in 1..Len(routes) : routes[k].id = id].poolAddress
  ELSE "none"

\* C29: selectedRouteId is null or the id of a route present in routes, and
\* as long as it is not changed it names the route of the same venue quote
\* (the same pool, hence dex and fee tier).
C29_SelectionDenotesRoute ==
  /\ [](viewModel.selectedRouteId # "null"
          => PoolOfRoute(viewModel.routes, viewModel.selectedRouteId) # "none")
  /\ [][(/\ viewModel.selectedRouteId # "null"
         /\ viewModel'.selectedRouteId = viewModel.selectedRouteId)
          => PoolOfRoute(viewModel'.routes, viewModel.selectedRouteId)
               = PoolOfRoute(viewModel.routes, viewModel.selectedRouteId)]_vars

(***************************************************************************)
(* Web client: the swap view, which executes the selected route of the     *)
(* view model through useSwapExecution.                                    *)
(***************************************************************************)
\* selectedRoute.transaction.approval: the approval property of the
\* transaction object, undefined when the object has none
ApprovalOf(transaction) ==
  IF "approval" \in DOMAIN transaction
  THEN [defined |-> TRUE, needed |-> transaction.approval.needed]
  ELSE [defined |-> FALSE, needed |-> FALSE]

\* viewModel.routes.find(route => route.id === viewModel.selectedRouteId)
SelectedRoutes ==
  {k \in 1..Len(viewModel.routes) :
     viewModel.routes[k].id = viewModel.selectedRouteId}

\* the address of the from token in the loaded token list, "" when missing
FromTokenAddress ==
  IF viewModel.inputs.availableTokens = "loaded"
       /\ viewModel.inputs.fromToken = "WETH"
  THEN WETH ELSE ""

\* the swap button is enabled and clicked: handleExecuteSwap with a
\* connected wallet, which past its guards calls executeSwap with the
\* transaction of the selected route
HandleExecuteSwap ==
  /\ swapExec.calls < MaxCalls
  /\ swapExec.send.status \notin {"wallet", "confirming"}
  /\ swapExec.approve.status \notin {"wallet", "confirming"}
  /\ viewModel.inputs.fromToken # ""
  /\ viewModel.inputs.toToken # ""
  /\ viewModel.inputs.fromAmount # ""
  /\ viewModel.selectedRouteId # "null"
  /\ SelectedRoutes # {}
  /\ LET selectedRoute ==
           viewModel.routes[CHOOSE k \in SelectedRoutes :
                              \A j \in SelectedRoutes : k <= j]
     IN /\ selectedRoute.transaction # NoTransaction
        /\ swapExec' = executeSwap(swapExec, selectedRoute.transaction,
                                   ApprovalOf(selectedRoute.transaction),
                                   FromTokenAddress)
  /\ UNCHANGED << ServerVars, tokensApi, apiClient, viewModel >>

\* the quote state, the execution of the selected route and the steps of
\* the wallet that follow it
NextSwapView ==
  \/ ChangeInputs
  \/ DebounceFires
  \/ IntervalFires
  \/ QuoteSettles
  \/ SelectRoute
  \/ HandleExecuteSwap
  \/ WalletSignsSwap
  \/ WalletRejectsSwap
  \/ SwapReceipt
  \/ ResetSwap

SpecSwapView == InitClient("swapView") /\ [][NextSwapView]_vars

\* the quote of the selected route reports approval.needed = true
SelectedQuoteNeedsApproval ==
  \E k \in SelectedRoutes :
    \E j \in 1..Len(viewModel.quoteData.allQuotes) :
      /\ viewModel.quoteData.allQuotes[j].poolAddress
           = viewModel.routes[k].poolAddress
      /\ viewModel.quoteData.allQuotes[j].approval.needed

\* C24: when the user executes a selected route whose quote reports
\* approval.needed = true, the call submits an ERC-20 approve for the
\* router of the route (transaction.to) and sends no swap transaction.
C24_ApprovalBeforeSwap ==
  [][(swapExec'.calls = swapExec.calls + 1 /\ SelectedQuoteNeedsApproval)
       => /\ swapExec'.sent = swapExec.sent
          /\ \E k \in SelectedRoutes :
               swapExec'.approvals =
                 Append(swapExec.approvals,
                        [call |-> swapExec'.calls,
                         token |-> FromTokenAddress,
                         spender |-> viewModel.routes[k].transaction.to])]_vars

====
